---- MODULE Spec2Model ----
(***************************************************************************)
(* Model of the media acquisition orchestrator of youtube-downloader.tsx   *)
(* (the Command component, source lines 388-1166): the React state of the  *)
(* form, the closure variables fullOutput and toast, the shared process    *)
(* reference activeProcessRef, and the asynchronous handler handleSubmit   *)
(* with the yt-dlp subprocess it spawns through execa.                     *)
(*                                                                         *)
(* Text is modelled as TLA+ strings: accumulated output, format            *)
(* expressions, arguments and messages are the strings the code builds.    *)
(***************************************************************************)
EXTENDS Integers, Sequences, FiniteSets, TLC

----------------------------------------------------------------------------
(* Bounds of the model. *)

\* number of submissions (request slots) of the lifecycle specification
NumRequests == 2
\* output chunks one subprocess emits in the lifecycle specification
MaxChunks == 1
\* output chunks the subprocess emits in the classification specification
MaxLines == 2
\* metadata calls in flight at once in the estimate specification
MaxInfoCalls == 1
\* metadata calls in flight at once in the stale-estimate specification
MaxPending == 2
\* output chunks the subprocess emits in the progress specification
MaxSamples == 4

----------------------------------------------------------------------------
(* String helpers: the JavaScript string methods the code uses. *)

Min(a, b) == IF a < b THEN a ELSE b

\* s.startsWith(p)
StartsWith(s, p) == Len(s) >= Len(p) /\ SubSeq(s, 1, Len(p)) = p

\* the 1-based positions at which m occurs in s
Occurrences(s, m) ==
    {i \in 1..(Len(s) - Len(m) + 1) : SubSeq(s, i, i + Len(m) - 1) = m}

\* s.includes(m)
Includes(s, m) == \E i \in 1..(Len(s) - Len(m) + 1) : SubSeq(s, i, i + Len(m) - 1) = m

\* s.indexOf(m), 1-based, 0 when absent
IndexOf(s, m) ==
    LET occ == Occurrences(s, m)
    IN  IF occ = {} THEN 0 ELSE CHOOSE i \in occ : \A j \in occ : i <= j

\* s.replace(m, w) with a string pattern: the first occurrence only
ReplaceFirst(s, m, w) ==
    IF IndexOf(s, m) = 0 THEN s
    ELSE SubSeq(s, 1, IndexOf(s, m) - 1) \o w
         \o SubSeq(s, IndexOf(s, m) + Len(m), Len(s))

\* s.substring(0, n)
Substring0(s, n) == SubSeq(s, 1, Min(n, Len(s)))

\* s.split(sep) for a non-empty separator
RECURSIVE Split(_, _)
Split(s, sep) ==
    IF IndexOf(s, sep) = 0 THEN <<s>>
    ELSE <<SubSeq(s, 1, IndexOf(s, sep) - 1)>>
         \o Split(SubSeq(s, IndexOf(s, sep) + Len(sep), Len(s)), sep)

\* parts.join(sep)
Join(parts, sep) ==
    LET joined[i \in 0..Len(parts)] ==
            IF i = 0 THEN ""
            ELSE IF i = 1 THEN parts[1]
            ELSE joined[i - 1] \o sep \o parts[i]
    IN  joined[Len(parts)]

\* the lower-case letter of every upper-case ASCII letter
LowerOf ==
    ("A" :> "a") @@ ("B" :> "b") @@ ("C" :> "c") @@ ("D" :> "d") @@ ("E" :> "e") @@ ("F" :> "f") @@
    ("G" :> "g") @@ ("H" :> "h") @@ ("I" :> "i") @@ ("J" :> "j") @@ ("K" :> "k") @@ ("L" :> "l") @@
    ("M" :> "m") @@ ("N" :> "n") @@ ("O" :> "o") @@ ("P" :> "p") @@ ("Q" :> "q") @@ ("R" :> "r") @@
    ("S" :> "s") @@ ("T" :> "t") @@ ("U" :> "u") @@ ("V" :> "v") @@ ("W" :> "w") @@ ("X" :> "x") @@
    ("Y" :> "y") @@ ("Z" :> "z")

UpperLetters == DOMAIN LowerOf

LowerChar(c) == IF c \in UpperLetters THEN LowerOf[c] ELSE c

\* a.toLowerCase() === b.toLowerCase()
EqualsIgnoreCase(a, b) ==
    /\ Len(a) = Len(b)
    /\ \A i \in 1..Len(a) : LowerChar(SubSeq(a, i, i)) = LowerChar(SubSeq(b, i, i))

\* the positions at which m occurs in s, letter case ignored (a regex with flag i)
OccurrencesIgnoreCase(s, m) ==
    {i \in 1..(Len(s) - Len(m) + 1) : EqualsIgnoreCase(SubSeq(s, i, i + Len(m) - 1), m)}

WordChars == "abcdefghijklmnopqrstuvwxyzABCDEFGHIJKLMNOPQRSTUVWXYZ0123456789_-"
SpaceChars == " \n\t\r"

\* l.toLowerCase().startsWith("error:")
LineIsError(l) == Len(l) >= 6 /\ EqualsIgnoreCase(SubSeq(l, 1, 6), "error:")

\* array.find(pred) over the lines of a text: "" stands for undefined
RECURSIVE FindErrorLine(_)
FindErrorLine(lines) ==
    IF Len(lines) = 0 THEN ""
    ELSE IF LineIsError(lines[1]) THEN lines[1]
    ELSE FindErrorLine(Tail(lines))

----------------------------------------------------------------------------
(* The values of the form's dropdowns (JSX, lines 1088-1140). *)

DownloadTypes == {"mp4_video_audio", "mp4_video_only", "mp3_audio", "m4a_audio"}
VideoQualities == {"best", "2160p", "1440p", "1080p", "720p", "480p"}
CompressionLevels == {"none", "light", "medium", "high", "custom"}
CrfValues == {"18", "20", "23", "25", "28", "30"}
Mp3Qualities == {"5", "0", "2", "320K"}

IsVideoType(dt) == dt = "mp4_video_audio" \/ dt = "mp4_video_only"

\* path.join(os.homedir(), "Downloads")
DownloadsPath == "/Users/u/Downloads"

\* path.join(outputPath, "%(title)s.%(ext)s")
OutputTemplate(dir) == dir \o "/%(title)s.%(ext)s"

\* const strictYoutubeRegex and validateUrl's result (lines 560-573)
UrlRest(s) ==
    LET a == IF StartsWith(s, "https://") THEN SubSeq(s, 9, Len(s))
             ELSE IF StartsWith(s, "http://") THEN SubSeq(s, 8, Len(s))
             ELSE s
        b == IF StartsWith(a, "www.") THEN SubSeq(a, 5, Len(a)) ELSE a
    IN  IF StartsWith(b, "youtube.com/watch?v=") THEN <<TRUE, SubSeq(b, 21, Len(b))>>
        ELSE IF StartsWith(b, "youtu.be/") THEN <<TRUE, SubSeq(b, 10, Len(b))>>
        ELSE <<FALSE, "">>

validateUrl(value) ==
    /\ value # ""
    /\ UrlRest(value)[1]
    /\ Len(UrlRest(value)[2]) >= 1
    /\ Includes(WordChars, SubSeq(UrlRest(value)[2], 1, 1))
    /\ \A i \in 1..Len(UrlRest(value)[2]) :
          ~Includes(SpaceChars, SubSeq(UrlRest(value)[2], i, i))

\* what the user may type into the URL field
UrlValues == {"", "https://youtu.be/abc", "youtube.com/playlist"}

\* lines 562 and 568: the messages of setUrlError; "" is undefined
MsgUrlEmpty == "URL cannot be empty. Please enter a YouTube video URL."
MsgUrlInvalid ==
    "Please enter a valid YouTube URL (e.g., youtube.com/watch?v=... or youtu.be/...)."

\* lines 560-573: what validateUrl(value) passes to setUrlError
UrlErrorOf(value) ==
    IF value = "" THEN MsgUrlEmpty
    ELSE IF ~validateUrl(value) THEN MsgUrlInvalid
    ELSE ""

\* lines 415-470: the presets object, in the order of its keys
PresetKeys == << "high-quality", "mobile-friendly", "storage-saver", "audio-only",
                "balanced", "custom" >>

Settings(dt, vq, cl, crf, mp3) ==
    [downloadType |-> dt, videoQuality |-> vq, compressionLevel |-> cl,
     compressionCrf |-> crf, mp3Quality |-> mp3]

presets ==
    [k \in {PresetKeys[i] : i \in 1..Len(PresetKeys)} |->
        CASE k = "high-quality" -> Settings("mp4_video_audio", "best", "light", "20", "0")
          [] k = "mobile-friendly" -> Settings("mp4_video_audio", "720p", "high", "28", "5")
          [] k = "storage-saver" -> Settings("mp4_video_audio", "480p", "high", "30", "5")
          [] k = "audio-only" -> Settings("mp3_audio", "best", "none", "23", "0")
          [] k = "balanced" -> Settings("mp4_video_audio", "1080p", "medium", "23", "2")
          [] k = "custom" -> Settings("mp4_video_audio", "best", "none", "23", "5")]

\* lines 534-558: the key the preset detection effect passes to setSelectedPreset
DetectPreset(current) ==
    LET hits == {i \in 1..Len(PresetKeys) :
                    PresetKeys[i] # "custom" /\ presets[PresetKeys[i]] = current}
    IN  IF hits = {} THEN "custom"
        ELSE PresetKeys[CHOOSE i \in hits : \A j \in hits : i <= j]

----------------------------------------------------------------------------
(* Format Selector and Compression Planner: the argument list handleSubmit  *)
(* builds (lines 804-917).                                                  *)

\* FormatAlternativesVideoAudio with the uncapped mp4 alternative moved before
\* the capped pre-merged ones
FormatAlternativesVideoAudioSwapped(vq) ==
    IF vq # "best"
    THEN LET height == ReplaceFirst(vq, "p", "")
         IN  << "bestvideo[height<=" \o height \o "][ext=mp4]+bestaudio[ext=m4a]",
                "bestvideo[height<=" \o height \o "][ext=mp4]+bestaudio",
                "bestvideo[height<=" \o height \o "]+bestaudio[ext=m4a]",
                "bestvideo[height<=" \o height \o "]+bestaudio",
                "best[ext=mp4]",
                "best[height<=" \o height \o "][ext=mp4]",
                "best[height<=" \o height \o "]",
                "best" >>
    ELSE << "bestvideo[ext=mp4]+bestaudio[ext=m4a]",
            "bestvideo[ext=mp4]+bestaudio",
            "bestvideo+bestaudio[ext=m4a]",
            "bestvideo+bestaudio",
            "best[ext=mp4]",
            "best" >>

\* lines 808-834: format expression of mp4_video_audio
FormatAlternativesVideoAudio(vq) ==
    IF vq # "best"
    THEN LET height == ReplaceFirst(vq, "p", "")
         IN  << "bestvideo[height<=" \o height \o "][ext=mp4]+bestaudio[ext=m4a]",
                "bestvideo[height<=" \o height \o "][ext=mp4]+bestaudio",
                "bestvideo[height<=" \o height \o "]+bestaudio[ext=m4a]",
                "bestvideo[height<=" \o height \o "]+bestaudio",
                "best[height<=" \o height \o "][ext=mp4]",
                "best[height<=" \o height \o "]",
                "best[ext=mp4]",
                "best" >>
    ELSE << "bestvideo[ext=mp4]+bestaudio[ext=m4a]",
            "bestvideo[ext=mp4]+bestaudio",
            "bestvideo+bestaudio[ext=m4a]",
            "bestvideo+bestaudio",
            "best[ext=mp4]",
            "best" >>

\* lines 863-874: format expression of mp4_video_only
FormatAlternativesVideoOnly(vq) ==
    IF vq # "best"
    THEN LET height == ReplaceFirst(vq, "p", "")
         IN  << "bestvideo[height<=" \o height \o "][ext=mp4]",
                "bestvideo[height<=" \o height \o "]",
                "best[height<=" \o height \o "][ext=mp4]",
                "best[height<=" \o height \o "]" >>
    ELSE << "bestvideo[ext=mp4]", "bestvideo", "best[ext=mp4]", "best" >>

FormatString(dt, vq) ==
    IF dt = "mp4_video_audio" THEN Join(FormatAlternativesVideoAudio(vq), "/")
    ELSE Join(FormatAlternativesVideoOnly(vq), "/")

\* the switch of lines 844-858 and 883-897
\* CrfValue with the custom case missing from the switch
CrfValueWithoutCustom(cl, crf) ==
    CASE cl = "light" -> "20"
      [] cl = "medium" -> "23"
      [] cl = "high" -> "28"
      [] OTHER -> "23"

\* CrfValue with the CRF of the high level mistaken for the preset's 30
CrfValueHighAs30(cl, crf) ==
    CASE cl = "light" -> "20"
      [] cl = "medium" -> "23"
      [] cl = "high" -> "30"
      [] cl = "custom" -> crf
      [] OTHER -> "23"

CrfValue(cl, crf) ==
    CASE cl = "light" -> "20"
      [] cl = "medium" -> "23"
      [] cl = "high" -> "28"
      [] cl = "custom" -> crf
      [] OTHER -> "23"

\* lines 842-860 and 881-899: the --postprocessor-args pair, or nothing
CompressionArgs(dt, cl, crf) ==
    IF cl = "none" THEN << >>
    ELSE IF dt = "mp4_video_audio"
    THEN << "--postprocessor-args",
            "ffmpeg:-c:v libx264 -crf " \o CrfValue(cl, crf) \o " -c:a aac -b:a 128k" >>
    ELSE << "--postprocessor-args",
            "ffmpeg:-c:v libx264 -crf " \o CrfValue(cl, crf) >>

FfmpegLocationArgs(ffmpeg) ==
    IF ffmpeg # "" /\ ffmpeg # "ffmpeg" THEN << "--ffmpeg-location", ffmpeg >> ELSE << >>

\* ModeArgs that also passes the encoder arguments in the MP3 mode
ModeArgsCompressAudio(s) ==
    CASE IsVideoType(s.downloadType) ->
            << "-f", FormatString(s.downloadType, s.videoQuality),
               "--merge-output-format", "mp4" >>
            \o FfmpegLocationArgs(s.ffmpegPath)
            \o CompressionArgs(s.downloadType, s.compressionLevel, s.compressionCrf)
      [] s.downloadType = "mp3_audio" ->
            << "-x", "--audio-format", "mp3", "--audio-quality", s.mp3Quality >>
            \o FfmpegLocationArgs(s.ffmpegPath)
            \o CompressionArgs(s.downloadType, s.compressionLevel, s.compressionCrf)
      [] s.downloadType = "m4a_audio" ->
            << "-x", "--audio-format", "m4a" >> \o FfmpegLocationArgs(s.ffmpegPath)
      [] OTHER -> << >>

\* lines 808-908: the mode-specific arguments
ModeArgs(s) ==
    CASE IsVideoType(s.downloadType) ->
            << "-f", FormatString(s.downloadType, s.videoQuality),
               "--merge-output-format", "mp4" >>
            \o FfmpegLocationArgs(s.ffmpegPath)
            \o CompressionArgs(s.downloadType, s.compressionLevel, s.compressionCrf)
      [] s.downloadType = "mp3_audio" ->
            << "-x", "--audio-format", "mp3", "--audio-quality", s.mp3Quality >>
            \o FfmpegLocationArgs(s.ffmpegPath)
      [] s.downloadType = "m4a_audio" ->
            << "-x", "--audio-format", "m4a" >> \o FfmpegLocationArgs(s.ffmpegPath)
      [] OTHER -> << >>

\* lines 804-917: the whole argument list
BuildArgs(s) ==
    ModeArgs(s)
    \o << s.url, "-o", OutputTemplate(s.outputPath), "--no-playlist", "--progress" >>
    \o << "--extractor-retries", "3" >>
    \o << "--fragment-retries", "3" >>
    \o << "--retry-sleep", "1" >>
    \o << "--extractor-args", "youtube:player_client=android,web" >>

\* let finalExtension (lines 806-905)
FinalExtension(dt) ==
    CASE IsVideoType(dt) -> "mp4"
      [] dt = "mp3_audio" -> "mp3"
      [] dt = "m4a_audio" -> "m4a"
      [] OTHER -> ""

----------------------------------------------------------------------------
(* Numbers in text: parseFloat / toFixed(1) of the percentage. *)

DigitChars == "0123456789"

\* the length of the run of characters of `chars` in s from position j
RECURSIVE RunLen(_, _, _)
RunLen(s, j, chars) ==
    IF j <= Len(s) /\ Includes(chars, SubSeq(s, j, j))
    THEN 1 + RunLen(s, j + 1, chars)
    ELSE 0

RECURSIVE ParseNat(_)
ParseNat(d) ==
    IF Len(d) = 0 THEN 0
    ELSE 10 * ParseNat(SubSeq(d, 1, Len(d) - 1))
         + (IndexOf(DigitChars, SubSeq(d, Len(d), Len(d))) - 1)

RECURSIVE NatToString(_)
NatToString(n) ==
    IF n < 10 THEN SubSeq(DigitChars, n + 1, n + 1)
    ELSE NatToString(n \div 10) \o SubSeq(DigitChars, (n % 10) + 1, (n % 10) + 1)

\* parseFloat(p).toFixed(1) for p matching \d+\.\d+ : the value in tenths,
\* rounded on the second decimal
Tenths(p) ==
    LET dot == IndexOf(p, ".")
        int == ParseNat(SubSeq(p, 1, dot - 1))
        frac == SubSeq(p, dot + 1, Len(p))
        d1 == ParseNat(SubSeq(frac, 1, 1))
        up == IF Len(frac) >= 2 /\ ParseNat(SubSeq(frac, 2, 2)) >= 5 THEN 1 ELSE 0
    IN  int * 10 + d1 + up

ToFixed1(p) == NatToString(Tenths(p) \div 10) \o "." \o NatToString(Tenths(p) % 10)

\* progressRegex (line 677): \[download\]\s+(?<percentage>\d+\.\d+)%
\* the percentage group of the match that starts at occurrence i, "" if none
PercentageAt(data, i) ==
    LET ws == RunLen(data, i + 10, SpaceChars)
        a == i + 10 + ws
        n1 == RunLen(data, a, DigitChars)
        b == a + n1
        n2 == RunLen(data, b + 1, DigitChars)
        e == b + 1 + n2
    IN  IF /\ ws >= 1 /\ n1 >= 1
           /\ b <= Len(data) /\ SubSeq(data, b, b) = "."
           /\ n2 >= 1
           /\ e <= Len(data) /\ SubSeq(data, e, e) = "%"
        THEN SubSeq(data, a, e - 1)
        ELSE ""

\* progressRegex.exec(data)?.groups.percentage: the leftmost match, "" if none
ProgressMatch(data) ==
    LET hits == {i \in Occurrences(data, "[download]") : PercentageAt(data, i) # ""}
    IN  IF hits = {} THEN ""
        ELSE PercentageAt(data, CHOOSE i \in hits : \A j \in hits : i <= j)

\* JavaScript numbers that are not integers are modelled as exact fractions
\* <<numerator, denominator>> in lowest terms; <<0, 0>> is NaN
NaN == <<0, 0>>

Abs(n) == IF n < 0 THEN -n ELSE n

RECURSIVE GCD(_, _)
GCD(a, b) == IF b = 0 THEN a ELSE GCD(b, a % b)

Frac(n, d) ==
    IF d = 0 THEN NaN
    ELSE LET g == GCD(Abs(n), Abs(d))
         IN  IF d < 0 THEN << (-n) \div g, (-d) \div g >> ELSE << n \div g, d \div g >>

IsNaN(x) == x[2] = 0
\* x / y; common factors are removed before the products are formed
FracQuot(x, y) ==
    IF IsNaN(x) \/ IsNaN(y) \/ y[1] = 0 THEN NaN
    ELSE LET g1 == GCD(Abs(x[1]), Abs(y[1]))
             g2 == GCD(x[2], y[2])
         IN  Frac((x[1] \div g1) * (y[2] \div g2), (x[2] \div g2) * (y[1] \div g1))

FracMul(x, k) == FracQuot(x, <<1, k>>)
FracDiv(x, k) == FracQuot(x, <<k, 1>>)

\* x - y over the least common denominator
FracSub(x, y) ==
    IF IsNaN(x) \/ IsNaN(y) THEN NaN
    ELSE LET g == GCD(x[2], y[2])
         IN  Frac(x[1] * (y[2] \div g) - y[1] * (x[2] \div g), x[2] * (y[2] \div g))

\* x > k and x < k for an integer k; both are false for NaN
FracGreater(x, k) ==
    /\ ~IsNaN(x)
    /\ \/ x[1] \div x[2] > k
       \/ x[1] \div x[2] = k /\ x[1] % x[2] # 0

FracLess(x, k) == ~IsNaN(x) /\ x[1] \div x[2] < k
\* Math.floor(x) for x >= 0
FracFloor(x) == x[1] \div x[2]
\* x.toFixed(1) for x >= 0 (a tie rounds up)
FracToFixed1(x) ==
    LET tenths == (20 * x[1] + x[2]) \div (2 * x[2])
    IN  NatToString(tenths \div 10) \o "." \o NatToString(tenths % 10)

\* the characters of the classes [\d.] and \w
NumChars == "0123456789."
RegexWordChars == "abcdefghijklmnopqrstuvwxyzABCDEFGHIJKLMNOPQRSTUVWXYZ0123456789_"

\* parseFloat(text) for text of the class [\d.]+ : the digits, a point, the
\* digits after it; what follows a second point is ignored
ParseFloat(text) ==
    LET ni == RunLen(text, 1, DigitChars)
        dot == ni < Len(text) /\ SubSeq(text, ni + 1, ni + 1) = "."
        nf == IF dot THEN RunLen(text, ni + 2, DigitChars) ELSE 0
    IN  IF ni = 0 /\ nf = 0 THEN NaN
        ELSE Frac(ParseNat(SubSeq(text, 1, ni)) * 10 ^ nf
                    + ParseNat(SubSeq(text, ni + 2, ni + 1 + nf)), 10 ^ nf)

\* the literal stands at position p of text
LiteralAt(text, p, literal) ==
    /\ p >= 1
    /\ p + Len(literal) - 1 <= Len(text)
    /\ SubSeq(text, p, p + Len(literal) - 1) = literal

\* the split of ([\d.]+)(\w+) matched at position a of text, as
\* <<length of the number, length of the unit>>; <<0, 0>> when it does not
\* match there.  [\d.]+ is greedy and gives back its last digit to \w+ when
\* no word character follows it.
NumberUnitAt(text, a) ==
    LET n1 == RunLen(text, a, NumChars)
        n2 == RunLen(text, a + n1, RegexWordChars)
    IN  IF n1 >= 1 /\ n2 >= 1 THEN <<n1, n2>>
        ELSE IF n1 >= 2 /\ SubSeq(text, a + n1 - 1, a + n1 - 1) # "."
        THEN <<n1 - 1, 1>>
        ELSE <<0, 0>>

\* the leftmost position of text at which ([\d.]+)(\w+) followed by `after`
\* matches, 0 if none
NumberUnitMatch(text, after) ==
    LET hits == {a \in 1..Len(text) :
                    LET nu == NumberUnitAt(text, a)
                        e == a + nu[1] + nu[2]
                    IN  /\ nu[1] >= 1
                        /\ LiteralAt(text, e, after)}
    IN  IF hits = {} THEN 0 ELSE CHOOSE a \in hits : \A b \in hits : a <= b

\* UnitToMB with the decimal factor 1000 for GB and GiB
UnitToMBDecimalGB(value, unit) ==
    IF EqualsIgnoreCase(unit, "kb") \/ EqualsIgnoreCase(unit, "kib") THEN FracDiv(value, 1024)
    ELSE IF EqualsIgnoreCase(unit, "mb") \/ EqualsIgnoreCase(unit, "mib") THEN value
    ELSE IF EqualsIgnoreCase(unit, "gb") \/ EqualsIgnoreCase(unit, "gib")
    THEN FracMul(value, 1000)
    ELSE FracDiv(value, 1024 * 1024)

\* lines 685-700 and 707-722: the switch on the lower-cased unit
UnitToMB(value, unit) ==
    IF EqualsIgnoreCase(unit, "kb") \/ EqualsIgnoreCase(unit, "kib") THEN FracDiv(value, 1024)
    ELSE IF EqualsIgnoreCase(unit, "mb") \/ EqualsIgnoreCase(unit, "mib") THEN value
    ELSE IF EqualsIgnoreCase(unit, "gb") \/ EqualsIgnoreCase(unit, "gib")
    THEN FracMul(value, 1024)
    ELSE FracDiv(value, 1024 * 1024)

\* the value in MB of the match of ([\d.]+)(\w+) and `after` in text, 0 when
\* there is no match
ValueInMB(text, after) ==
    LET a == NumberUnitMatch(text, after)
        nu == NumberUnitAt(text, a)
    IN  IF a = 0 THEN <<0, 1>>
        ELSE UnitToMB(ParseFloat(SubSeq(text, a, a + nu[1] - 1)),
                      SubSeq(text, a + nu[1], a + nu[1] + nu[2] - 1))

\* lines 681-701
parseSize(sizeStr) == ValueInMB(sizeStr, "")

\* lines 703-723
parseSpeed(speedStr) == ValueInMB(speedStr, "/s")

NoSizeMatch == [downloaded |-> "", total |-> "", speed |-> ""]

\* one step of a regular expression match at position p of data (0: the match
\* has failed): the position after \s+, after a literal, after [\d.]+\w+
AfterSpaces(data, p) ==
    IF p = 0 \/ RunLen(data, p, SpaceChars) = 0 THEN 0 ELSE p + RunLen(data, p, SpaceChars)

AfterLiteral(data, p, literal) ==
    IF LiteralAt(data, p, literal) THEN p + Len(literal) ELSE 0

AfterNumberUnit(data, p) ==
    IF p = 0 \/ NumberUnitAt(data, p)[1] = 0 THEN 0
    ELSE p + NumberUnitAt(data, p)[1] + NumberUnitAt(data, p)[2]

\* sizeRegex (line 678) from left to right; a1, a2, a3 are the starts of its
\* three groups and e1, e2, e3 the positions after them
SizeGroups(data, a1, e1, a2, e2, a3, e3) ==
    IF AfterLiteral(data, e3, "/s") = 0 THEN NoSizeMatch
    ELSE [downloaded |-> SubSeq(data, a1, e1 - 1), total |-> SubSeq(data, a2, e2 - 1),
          speed |-> SubSeq(data, a3, e3 + 1)]

SizeFromSpeed(data, a1, e1, a2, e2, a3) ==
    SizeGroups(data, a1, e1, a2, e2, a3, AfterNumberUnit(data, a3))

SizeFromAt(data, a1, e1, a2, e2) ==
    SizeFromSpeed(data, a1, e1, a2, e2,
                  AfterSpaces(data, AfterLiteral(data, AfterSpaces(data, e2), "at")))

SizeFromTotal(data, a1, e1, a2) == SizeFromAt(data, a1, e1, a2, AfterNumberUnit(data, a2))

SizeFromOf(data, a1, e1) ==
    SizeFromTotal(data, a1, e1,
                  AfterSpaces(data, AfterLiteral(data, AfterSpaces(data, e1), "of")))

SizeFromDownloaded(data, a1) == SizeFromOf(data, a1, AfterNumberUnit(data, a1))

\* sizeRegex matched at the occurrence i of "[download]": its three groups,
\* NoSizeMatch when it does not match there
SizeMatchAt(data, i) == SizeFromDownloaded(data, AfterSpaces(data, i + 10))

\* sizeRegex.exec(data)?.groups: the leftmost match, NoSizeMatch if none
SizeMatch(data) ==
    LET hits == {i \in Occurrences(data, "[download]") : SizeMatchAt(data, i) # NoSizeMatch}
    IN  IF hits = {} THEN NoSizeMatch
        ELSE SizeMatchAt(data, CHOOSE i \in hits : \A j \in hits : i <= j)

\* seconds.toString().padStart(2, "0")
PadStart2(n) == IF n < 10 THEN "0" \o NatToString(n) ELSE NatToString(n)

\* ProgressText that shows every positive ETA, however large
ProgressTextWithoutCeiling(percentage, downloadedMB, totalMB, speedMBps, etaSeconds) ==
    "Downloading... " \o ToFixed1(percentage) \o "%"
    \o (IF FracGreater(speedMBps, 0)
        THEN " | " \o FracToFixed1(speedMBps) \o " MB/s" ELSE "")
    \o (IF FracGreater(etaSeconds, 0)
        THEN " | ETA " \o NatToString(FracFloor(etaSeconds) \div 60) \o ":"
             \o PadStart2(FracFloor(etaSeconds) % 60)
        ELSE "")
    \o (IF FracGreater(downloadedMB, 0) /\ FracGreater(totalMB, 0)
        THEN " | " \o FracToFixed1(downloadedMB) \o "/" \o FracToFixed1(totalMB) \o " MB"
        ELSE "")

\* lines 753-767: progressMsg from the percentage and the four numbers
ProgressText(percentage, downloadedMB, totalMB, speedMBps, etaSeconds) ==
    "Downloading... " \o ToFixed1(percentage) \o "%"
    \o (IF FracGreater(speedMBps, 0)
        THEN " | " \o FracToFixed1(speedMBps) \o " MB/s" ELSE "")
    \o (IF FracGreater(etaSeconds, 0) /\ FracLess(etaSeconds, 3600)
        THEN " | ETA " \o NatToString(FracFloor(etaSeconds) \div 60) \o ":"
             \o PadStart2(FracFloor(etaSeconds) % 60)
        ELSE "")
    \o (IF FracGreater(downloadedMB, 0) /\ FracGreater(totalMB, 0)
        THEN " | " \o FracToFixed1(downloadedMB) \o "/" \o FracToFixed1(totalMB) \o " MB"
        ELSE "")

\* lines 746-750: remainingMB / speedMBps when the speed is positive, else 0
EtaSeconds(downloadedMB, totalMB, speedMBps) ==
    IF FracGreater(speedMBps, 0) THEN FracQuot(FracSub(totalMB, downloadedMB), speedMBps)
    ELSE <<0, 1>>

\* lines 740-751: the numbers of a size match
SizeProgressText(percentage, downloadedMB, totalMB, speedMBps) ==
    ProgressText(percentage, downloadedMB, totalMB, speedMBps,
                 EtaSeconds(downloadedMB, totalMB, speedMBps))

\* lines 732-771: progressMsg for a chunk in which progressRegex matches
ProgressMessageWith(data, sizeMatch) ==
    IF sizeMatch = NoSizeMatch
    THEN ProgressText(ProgressMatch(data), <<0, 1>>, <<0, 1>>, <<0, 1>>, <<0, 1>>)
    ELSE SizeProgressText(ProgressMatch(data), parseSize(sizeMatch.downloaded),
                          parseSize(sizeMatch.total), parseSpeed(sizeMatch.speed))

ProgressMessage(data) == ProgressMessageWith(data, SizeMatch(data))

----------------------------------------------------------------------------
(* The size estimate of getVideoInfoAndEstimate (lines 589-668).  Bitrates   *)
(* are in kbps, compression factors in fiftieths, so that the estimate in MB *)
(* is EstimateNum / EstimateDen exactly.                                     *)

\* VideoBitrate with the 1440p figure also used for 1080p
VideoBitrate1080As1440(vq) ==
    CASE vq = "best" \/ vq = "2160p" -> 8000
      [] vq = "1440p" \/ vq = "1080p" -> 4000
      [] vq = "720p" -> 1000
      [] vq = "480p" -> 500
      [] OTHER -> 0

\* lines 595-606: let videoBitrate
VideoBitrate(vq) ==
    CASE vq = "best" \/ vq = "2160p" -> 8000
      [] vq = "1440p" -> 4000
      [] vq = "1080p" -> 2000
      [] vq = "720p" -> 1000
      [] vq = "480p" -> 500
      [] OTHER -> 0

Max(a, b) == IF a > b THEN a ELSE b

\* lines 609-627: compressionFactor, in fiftieths (0.8 is 40); parseInt of the CRF
CompressionFactor(cl, crf) ==
    CASE cl = "light" -> 40
      [] cl = "medium" -> 30
      [] cl = "high" -> 20
      [] cl = "custom" -> Max(15, 50 - (ParseNat(crf) - 18) * 2)
      [] OTHER -> 50

\* line 635: the audio bitrate added for video+audio
VideoAudioBitrate(cl) == IF cl # "none" THEN 128 ELSE 256

\* lines 640-654: the bitrate of the MP3 quality code
Mp3Bitrate(q) ==
    CASE q = "0" -> 245
      [] q = "2" -> 190
      [] q = "5" -> 130
      [] q = "320K" -> 320
      [] OTHER -> 128

\* 50 * 8 * 1024
EstimateDen == 409600

\* lines 591-659: estimatedMB * EstimateDen
EstimateNum(c, duration) ==
    CASE IsVideoType(c.downloadType) ->
            VideoBitrate(c.videoQuality)
                * CompressionFactor(c.compressionLevel, c.compressionCrf) * duration
            + (IF c.downloadType = "mp4_video_audio"
               THEN VideoAudioBitrate(c.compressionLevel) * 50 * duration ELSE 0)
      [] c.downloadType = "mp3_audio" -> Mp3Bitrate(c.mp3Quality) * 50 * duration
      [] c.downloadType = "m4a_audio" -> 256 * 50 * duration
      [] OTHER -> 0

\* Math.round(n / d) for n >= 0
Round(n, d) == (2 * n + d) \div (2 * d)

\* lines 661-668: the text passed to setEstimatedSize
FormatEstimate(n) ==
    IF n < EstimateDen
    THEN "~" \o NatToString(Round(n, EstimateDen \div 1024)) \o " KB"
    ELSE IF n < 1024 * EstimateDen
    THEN "~" \o NatToString(Round(n, EstimateDen)) \o " MB"
    ELSE LET tenths == Round(n \div 1024, EstimateDen \div 10)
         IN  "~" \o NatToString(tenths \div 10) \o "." \o NatToString(tenths % 10) \o " GB"

\* the durations (info.duration || 0, in seconds) the metadata may report
Durations == {0, 1, 125, 600, 1200}

----------------------------------------------------------------------------
(* Outcome classification: the success path (lines 926-941) and the catch   *)
(* block (lines 945-1017) of handleSubmit.                                  *)

\* s.trim()
RECURSIVE TrimStart(_)
TrimStart(s) ==
    IF Len(s) > 0 /\ Includes(SpaceChars, SubSeq(s, 1, 1))
    THEN TrimStart(SubSeq(s, 2, Len(s))) ELSE s

RECURSIVE TrimEnd(_)
TrimEnd(s) ==
    IF Len(s) > 0 /\ Includes(SpaceChars, SubSeq(s, Len(s), Len(s)))
    THEN TrimEnd(SubSeq(s, 1, Len(s) - 1)) ELSE s

Trim(s) == TrimEnd(TrimStart(s))

\* path.basename(p): what follows the last "/" (trailing "/" dropped)
RECURSIVE Basename(_)
Basename(p) ==
    IF Len(p) > 1 /\ SubSeq(p, Len(p), Len(p)) = "/" THEN Basename(SubSeq(p, 1, Len(p) - 1))
    ELSE IF IndexOf(p, "/") = 0 THEN p
    ELSE Basename(SubSeq(p, IndexOf(p, "/") + 1, Len(p)))

\* the text from position j to the end of its line
RestOfLine(s, j) ==
    LET rest == SubSeq(s, j, Len(s))
    IN  IF IndexOf(rest, "\n") = 0 THEN rest ELSE SubSeq(rest, 1, IndexOf(rest, "\n") - 1)

\* fullOutput.match(/\[(?:download|ExtractAudio)\] Destination: (.*)/i)[1], "" if no match
DestMatch(out) ==
    LET hits == {i + Len("[download] destination: ") :
                    i \in OccurrencesIgnoreCase(out, "[download] destination: ")}
                \cup {i + Len("[extractaudio] destination: ") :
                    i \in OccurrencesIgnoreCase(out, "[extractaudio] destination: ")}
    IN  IF hits = {} THEN ""
        ELSE RestOfLine(out, CHOOSE i \in hits : \A j \in hits : i <= j)

\* fullOutput.match(/\[info\] (.*?)\[/s)[1], "" if no match
TitleMatch(out) ==
    LET i == IndexOf(out, "[info] ")
        rest == SubSeq(out, i + 7, Len(out))
    IN  IF i = 0 \/ IndexOf(rest, "[") = 0 THEN ""
        ELSE SubSeq(rest, 1, IndexOf(rest, "[") - 1)

\* lines 928-939: let downloadedFileName
DownloadedFileName(out, finalExtension) ==
    IF DestMatch(out) # "" THEN Basename(Trim(DestMatch(out)))
    ELSE IF TitleMatch(out) # ""
    THEN Split(Trim(TitleMatch(out)), "\n")[1] \o "." \o finalExtension
    ELSE "Downloaded_File." \o finalExtension

\* lines 926-941: what the success path writes to the toast
SuccessResult(out, finalExtension, outputPath) ==
    [ style |-> "Success",
      title |-> "Download Complete!",
      message |-> DownloadedFileName(out, finalExtension) \o " saved to "
                  \o Basename(outputPath) \o ".",
      details |-> "",
      primaryAction |-> "" ]

MsgUnsupportedUrl == "Unsupported URL."
MsgVideoUnavailable == "Video unavailable."
MsgFormatUnavailable == "Video format not available. Try a different quality setting."
MsgNsig == "YouTube playback issue detected. The video was likely still downloaded successfully."
MsgFormatsMissing == "Some video qualities unavailable, but download should still work."
MsgAccessDenied == "Access denied by YouTube. Try again in a few minutes."
MsgPrivateVideo == "This video is private and cannot be downloaded."
MsgLiveEnded == "This live stream has ended and may not be available for download."
MsgCancelled == "Download was cancelled by the user."
MsgTimeout == "Download timed out."
MsgDefault == "Failed to download video."
MsgNoErrorLine == "An error occurred. Check console."

\* lines 983-1000: the marker scan over out (out is not empty)
\* ScanMessage with the "Private video" branch lost
ScanMessageWithoutPrivate(out) ==
    IF Includes(out, "Unsupported URL") THEN MsgUnsupportedUrl
    ELSE IF Includes(out, "Video unavailable") THEN MsgVideoUnavailable
    ELSE IF Includes(out, "Requested format is not available") THEN MsgFormatUnavailable
    ELSE IF Includes(out, "nsig extraction failed") THEN MsgNsig
    ELSE IF Includes(out, "Some formats may be missing") THEN MsgFormatsMissing
    ELSE IF Includes(out, "HTTP Error 403") THEN MsgAccessDenied
    ELSE IF Includes(out, "This live event has ended") THEN MsgLiveEnded
    ELSE IF FindErrorLine(Split(out, "\n")) # "" THEN FindErrorLine(Split(out, "\n"))
    ELSE MsgNoErrorLine

\* ScanMessage with the nsig test placed before the format test
ScanMessageNsigFirst(out) ==
    IF Includes(out, "Unsupported URL") THEN MsgUnsupportedUrl
    ELSE IF Includes(out, "Video unavailable") THEN MsgVideoUnavailable
    ELSE IF Includes(out, "nsig extraction failed") THEN MsgNsig
    ELSE IF Includes(out, "Requested format is not available") THEN MsgFormatUnavailable
    ELSE IF Includes(out, "Some formats may be missing") THEN MsgFormatsMissing
    ELSE IF Includes(out, "HTTP Error 403") THEN MsgAccessDenied
    ELSE IF Includes(out, "Private video") THEN MsgPrivateVideo
    ELSE IF Includes(out, "This live event has ended") THEN MsgLiveEnded
    ELSE IF FindErrorLine(Split(out, "\n")) # "" THEN FindErrorLine(Split(out, "\n"))
    ELSE MsgNoErrorLine

ScanMessage(out) ==
    IF Includes(out, "Unsupported URL") THEN MsgUnsupportedUrl
    ELSE IF Includes(out, "Video unavailable") THEN MsgVideoUnavailable
    ELSE IF Includes(out, "Requested format is not available") THEN MsgFormatUnavailable
    ELSE IF Includes(out, "nsig extraction failed") THEN MsgNsig
    ELSE IF Includes(out, "Some formats may be missing") THEN MsgFormatsMissing
    ELSE IF Includes(out, "HTTP Error 403") THEN MsgAccessDenied
    ELSE IF Includes(out, "Private video") THEN MsgPrivateVideo
    ELSE IF Includes(out, "This live event has ended") THEN MsgLiveEnded
    ELSE IF FindErrorLine(Split(out, "\n")) # "" THEN FindErrorLine(Split(out, "\n"))
    ELSE MsgNoErrorLine

\* err.command?.split(" ")[0]
CommandName(err) == IF err.command = "" THEN "undefined" ELSE Split(err.command, " ")[1]

\* lines 965-1003: let userMessage
UserMessage(err, fullOutput, ytDlp) ==
    IF err.isCanceled THEN MsgCancelled
    ELSE IF err.code = "ENOENT"
    THEN "Failed to execute " \o CommandName(err) \o ". Path: " \o ytDlp
    ELSE IF err.isTimeout THEN MsgTimeout
    ELSE IF fullOutput # "" \/ err.stderr # "" \/ err.stdout # ""
    THEN ScanMessage(IF fullOutput # "" THEN fullOutput
                     ELSE IF err.stderr # "" THEN err.stderr ELSE err.stdout)
    ELSE IF err.shortMessage # "" THEN err.shortMessage
    ELSE MsgDefault

\* lines 966-980: let errorDetailsForClipboard
ErrorDetailsForClipboard(err, fullOutput, ytDlp) ==
    IF err.isCanceled THEN MsgCancelled
    ELSE IF err.code = "ENOENT"
    THEN "ENOENT: Command not found. Tried to run '" \o CommandName(err)
         \o "' at path '" \o ytDlp \o "'. Ensure it is correctly installed and accessible."
    ELSE IF err.isTimeout
    THEN "Timeout: The command '" \o err.command \o "' timed out after "
         \o err.durationMs \o "ms."
    ELSE "Error: " \o (IF err.message # "" THEN err.message ELSE "Unknown error")
         \o (IF fullOutput # "" THEN "\n\nOutput:\n" \o fullOutput ELSE "")

\* CatchResult that writes userMessage to the toast as it is
CatchResultUncapped(err, fullOutput, ytDlp) ==
    [ style |-> IF err.isCanceled THEN "Success" ELSE "Failure",
      title |-> IF err.isCanceled THEN "Download Cancelled" ELSE "Download Failed",
      message |-> UserMessage(err, fullOutput, ytDlp),
      details |-> ErrorDetailsForClipboard(err, fullOutput, ytDlp),
      primaryAction |-> IF err.isCanceled THEN "" ELSE "Copy Error Details" ]

\* lines 962-1016: what the catch block writes to the toast
CatchResult(err, fullOutput, ytDlp) ==
    [ style |-> IF err.isCanceled THEN "Success" ELSE "Failure",
      title |-> IF err.isCanceled THEN "Download Cancelled" ELSE "Download Failed",
      message |-> Substring0(UserMessage(err, fullOutput, ytDlp), 250),
      details |-> ErrorDetailsForClipboard(err, fullOutput, ytDlp),
      primaryAction |-> IF err.isCanceled THEN "" ELSE "Copy Error Details" ]

----------------------------------------------------------------------------
(* The subprocess, as execa presents it to the handler.                     *)

\* an error line of yt-dlp longer than the cap of line 1004 (263 characters)
LongErrorLine ==
    "ERROR: "
    \o "unable to download webpage: <urlopen error [Errno 8] nodename nor"
    \o " servname provided, or not known> (caused by URLError(gaierror(8,"
    \o " 'nodename nor servname provided, or not known'))); please report"
    \o " this issue on https://github.com/yt-dlp/yt-dlp/issues?q= , fill "

\* the yt-dlp output chunks of the lifecycle specification
LifeChunks ==
    { "ERROR: [youtube] abc: Private video\n",
      "[download] Destination: /Users/u/Downloads/clip.mp4\n" }

\* the yt-dlp output chunks of the classification specification
ClassifyChunks ==
    { "ERROR: Unsupported URL: https://youtu.be/abc\n",
      "ERROR: [youtube] abc: Video unavailable\n",
      "ERROR: [youtube] abc: Requested format is not available\n",
      "WARNING: [youtube] abc: nsig extraction failed: Some formats may be missing\n",
      "WARNING: [youtube] abc: nsig extraction failed: player = x\n",
      "WARNING: Some formats may be missing\n",
      "ERROR: unable to download video data: HTTP Error 403: Forbidden\n",
      "ERROR: [youtube] abc: Private video\n",
      "ERROR: [youtube] abc: This live event has ended\n",
      "ERROR: unable to open for writing\n",
      "[download] Destination: /Users/u/Downloads/clip.mp4\n",
      "[download]  42.5%\n",
      LongErrorLine \o "\n" }

\* the yt-dlp output chunks of the progress specification: percentages out of
\* order, a line without a percentage, a progress line as yt-dlp prints it,
\* and chunks in which both progressRegex and sizeRegex match
ProgressChunks ==
    { "[download]  10.0%\n",
      "[download]  95.0%\n",
      "[download]  12.0%\n",
      "[download]  80.0%\n",
      "[download] Destination: /Users/u/Downloads/clip.mp4\n",
      "[download]  42.5% of 100.00MiB at 2.50MiB/s ETA 00:23\n",
      "[download] 1.5GiB of 3.0GiB at 500KiB/s\n[download]  50.0%\n",
      "[download] 2048kb of 4MB at 1048576b/s\n[download]  50.0%\n" }

\* the yt-dlp output chunks of the file name specification: the destination
\* lines of a download and of an audio extraction, an [info] line, and the
\* line yt-dlp prints instead of a destination when the file already exists
FileNameChunks ==
    { "[download] Destination: /Users/u/Downloads/clip.mp4\n",
      "[ExtractAudio] Destination: /Users/u/Downloads/clip.mp3\n",
      "[info] abc: Downloading 1 format(s): 18\n",
      "[download] clip.mp4 has already been downloaded\n" }

\* the numbers and units of the sizes and speeds of the conversion
\* specification
SampleNumbers == {"1.5", "500", "2048", "3", "0.5"}
SampleUnits == {"KB", "KiB", "kb", "kib", "MB", "MiB", "mib", "GB", "GiB", "gb", "B", "TiB"}

\* a chunk in which both regular expressions match: number and unit are those
\* of the downloaded size and of the speed
ConvertChunk(number, unit) ==
    "[download] " \o number \o unit \o " of 4MB at " \o number \o unit \o "/s\n"
    \o "[download]  50.0%\n"

ConvertChunks == {ConvertChunk(n, u) : n \in SampleNumbers, u \in SampleUnits}

\* the sizes and speeds of the ETA specification
EtaDownloaded == {"0.0MiB", "10.0MiB", "100.0MiB", "200MiB"}
EtaTotals == {"10.0MiB", "100.0MiB", "3.0GiB", "3600MiB"}
EtaSpeeds == {"0.0KiB", "1KiB", "500KiB", "1MiB", "2.5MiB"}

\* a chunk in which both regular expressions match
EtaChunk(downloaded, total, speed) ==
    "[download] " \o downloaded \o " of " \o total \o " at " \o speed \o "/s\n"
    \o "[download]  50.0%\n"

\* the chunks of the ETA specification, and a progress line as yt-dlp prints
\* it, which sizeRegex does not match
EtaChunks ==
    {EtaChunk(d, t, v) : d \in EtaDownloaded, t \in EtaTotals, v \in EtaSpeeds}
        \cup {"[download]  42.5% of 100.00MiB at 2.50MiB/s ETA 00:23\n"}

\* yt-dlp writes its errors and warnings to stderr, the rest to stdout
IsStderr(chunk) == StartsWith(chunk, "ERROR:") \/ StartsWith(chunk, "WARNING:")

\* execa's error.command: the file and its arguments joined by spaces
CommandOf(ytDlp, argv) == Join(<<ytDlp>> \o argv, " ")

\* execa's error.message: shortMessage, then stderr and stdout when not empty
ExecaMessage(short, stderr, stdout) ==
    short \o (IF stderr # "" THEN "\n" \o stderr ELSE "")
          \o (IF stdout # "" THEN "\n" \o stdout ELSE "")

\* The error execa rejects with (line 923).  how: "fail" a non-zero exit code,
\* "signal" death by the SIGTERM of kill(), "timeout" the 900000 ms timer,
\* "enoent" the executable could not be spawned.  execa sets isCanceled only
\* for its cancel() method, which the code does not call (line 788 calls
\* kill()).  execa documents the timeout flag as timedOut; isTimeout, the
\* property the handler reads, is there only if the installed build sets it:
\* flagged says whether it does.
ExecaError(how, flagged, cmd, stdout, stderr) ==
    LET short == CASE how = "fail" -> "Command failed with exit code 1: " \o cmd
                   [] how = "signal" -> "Command was killed with SIGTERM (Termination): " \o cmd
                   [] how = "timeout" -> "Command timed out after 900000 milliseconds: " \o cmd
                   [] how = "enoent" -> "Command failed with ENOENT: " \o cmd
    IN  [ isCanceled |-> FALSE,
          code |-> IF how = "enoent" THEN "ENOENT" ELSE "",
          isTimeout |-> (how = "timeout" /\ flagged),
          command |-> cmd,
          durationMs |-> IF how = "timeout" THEN "900000" ELSE "undefined",
          stderr |-> stderr,
          stdout |-> stdout,
          shortMessage |-> short,
          message |-> ExecaMessage(short, stderr, stdout) ]

\* the error of a rejected closeMainWindow (line 944): no execa field is set
CloseError ==
    [ isCanceled |-> FALSE, code |-> "", isTimeout |-> FALSE, command |-> "",
      durationMs |-> "undefined", stderr |-> "", stdout |-> "", shortMessage |-> "",
      message |-> "Could not close the window" ]

----------------------------------------------------------------------------
(* State. *)

Requests == 1..NumRequests

VARIABLES
    url,                \* useState url (line 389)
    downloadType,       \* line 390
    videoQuality,       \* line 391
    mp3Quality,         \* line 392
    compressionLevel,   \* line 393
    compressionCrf,     \* line 394
    outputPath,         \* line 395
    isLoading,          \* line 404
    ytDlpPath,          \* line 405
    ffmpegPath,         \* line 406
    activeProcessRef,   \* line 407: 0 is null, else the request whose process it holds
    curClosure,         \* the closure of the current render: 0 while no submission
                        \* has run in it, else the first request submitted from it
    fullOutput,         \* line 676: one variable per render closure
    toastVar,           \* line 679: one variable per render closure; 0 is undefined
    pc,                 \* where each handleSubmit invocation stands
    closure,            \* the render closure each invocation runs in
    req,                \* the state values each invocation's closure captured
    args,               \* const args of each invocation (line 804)
    spawns,             \* how many times each invocation called execa (line 919)
    toast,              \* the Toast object each invocation's showToast created
    proc,               \* the subprocess of each invocation, as execa tracks it
    cancelRequested,    \* the user triggered a request's Cancel Download while it ran
    outcome,            \* what each invocation last posted (success path or catch block)
    selectedPreset,     \* line 402
    urlError,           \* line 403; "" is undefined
    estimatedSize,      \* line 396
    videoInfo,          \* line 397; present = FALSE is null
    infoCalls,          \* the invocations of getVideoInfoAndEstimate awaiting execa
                        \* (line 585), each with the values its closure captured
    estimateOf          \* the invocation that last got its metadata: what it had
                        \* captured and the duration it received

settingsVars == <<downloadType, videoQuality, mp3Quality, compressionLevel, compressionCrf>>
formVars == <<url, outputPath, ytDlpPath, ffmpegPath>>
closureVars == <<fullOutput, toastVar>>
estimateVars == <<estimatedSize, videoInfo, infoCalls, estimateOf>>
auxVars == <<selectedPreset, urlError, estimatedSize, videoInfo, infoCalls, estimateOf>>
vars == <<url, downloadType, videoQuality, mp3Quality, compressionLevel, compressionCrf,
          outputPath, isLoading, ytDlpPath, ffmpegPath, activeProcessRef, curClosure,
          fullOutput, toastVar, pc, closure, req, args, spawns, toast, proc,
          cancelRequested, outcome, selectedPreset, urlError, estimatedSize, videoInfo,
          infoCalls, estimateOf>>

NoToast == [style |-> "", title |-> "", message |-> "", details |-> "", primaryAction |-> ""]
NoProc == [state |-> "none", command |-> "", killed |-> FALSE, stdout |-> "",
           stderr |-> "", chunks |-> 0, exit |-> ""]
NoReq == [url |-> "", downloadType |-> "", videoQuality |-> "", mp3Quality |-> "",
          compressionLevel |-> "", compressionCrf |-> "", outputPath |-> "",
          ytDlpPath |-> "", ffmpegPath |-> ""]

NoInfo == [present |-> FALSE, duration |-> 0]

\* what an invocation of getVideoInfoAndEstimate captured: its argument and the
\* state values of the render that started it
InfoCall(u, current) == [videoUrl |-> u, settings |-> current]

NoEstimate == [call |-> InfoCall("", Settings("", "", "", "", "")), duration |-> 0]

\* lines 509-513 at the render that follows initialize(): the estimate effect
\* has started a metadata call when the URL is valid
InitialCalls(u, current) ==
    IF u # "" /\ validateUrl(u) THEN {InfoCall(u, current)} ELSE {}

\* lines 390-394: the settings of the first render
DefaultSettings == Settings("mp4_video_audio", "best", "none", "23", "5")

\* the form with the URL u and the settings `current`, no download started and
\* no estimate shown; the estimate effect of the last render has run.  ytDlp
\* and ffmpeg are what findCommandPath returned (lines 475-482), "" for null
FormStateWith(u, ytDlp, ffmpeg, current) ==
    /\ url = u
    /\ downloadType = current.downloadType
    /\ videoQuality = current.videoQuality
    /\ mp3Quality = current.mp3Quality
    /\ compressionLevel = current.compressionLevel
    /\ compressionCrf = current.compressionCrf
    /\ outputPath = DownloadsPath
    /\ isLoading = FALSE
    /\ ytDlpPath = ytDlp
    /\ ffmpegPath = ffmpeg
    /\ activeProcessRef = 0
    /\ curClosure = 0
    /\ fullOutput = [c \in Requests |-> ""]
    /\ toastVar = [c \in Requests |-> 0]
    /\ pc = [r \in Requests |-> "idle"]
    /\ closure = [r \in Requests |-> 0]
    /\ req = [r \in Requests |-> NoReq]
    /\ args = [r \in Requests |-> << >>]
    /\ spawns = [r \in Requests |-> 0]
    /\ toast = [r \in Requests |-> NoToast]
    /\ proc = [r \in Requests |-> NoProc]
    /\ cancelRequested = [r \in Requests |-> FALSE]
    /\ outcome = [r \in Requests |-> NoToast]
    /\ selectedPreset = DetectPreset(current)
    /\ urlError = ""
    /\ estimatedSize = ""
    /\ videoInfo = NoInfo
    /\ infoCalls = IF ytDlp = "" THEN {} ELSE InitialCalls(u, current)
    /\ estimateOf = NoEstimate

\* the same once initialize() has found yt-dlp
FormState(u, ffmpeg, current) == FormStateWith(u, "yt-dlp", ffmpeg, current)

\* the state once initialize() (lines 472-506) has found both executables; u is
\* the URL pre-filled from the clipboard, "" when the clipboard held none
InitForm(u, ffmpeg) == FormState(u, ffmpeg, DefaultSettings)

InitWith(ffmpeg) == InitForm("https://youtu.be/abc", ffmpeg)

Init == InitWith("ffmpeg")

----------------------------------------------------------------------------
(* handleSubmit (lines 775-1021), one action per stretch between awaits.    *)

\* React renders again when a state setter changed a value; the new render
\* declares fresh fullOutput and toast variables (lines 676-679)
AfterSetIsLoading(value, kept) == IF isLoading # value THEN 0 ELSE kept

\* line 776: handleSubmit returns when validateUrl(url) fails; validateUrl has
\* set urlError (lines 561-569)
SubmitInvalidUrl(r) ==
    /\ pc[r] = "idle"
    /\ IF r = 1 THEN TRUE ELSE pc[r - 1] # "idle"
    /\ ~validateUrl(url)
    /\ urlError' = UrlErrorOf(url)
    /\ curClosure' = IF urlError # UrlErrorOf(url) THEN 0 ELSE curClosure
    /\ UNCHANGED <<settingsVars, formVars, selectedPreset, estimateVars, isLoading,
                   activeProcessRef, fullOutput, toastVar, pc, closure, req, args, spawns,
                   toast, proc, cancelRequested, outcome>>

\* lines 777-780: handleSubmit shows the "Missing Dependencies" toast and
\* returns when an executable was not found
SubmitMissingDependencies(r) ==
    /\ pc[r] = "idle"
    /\ IF r = 1 THEN TRUE ELSE pc[r - 1] # "idle"
    /\ validateUrl(url)
    /\ ytDlpPath = "" \/ ffmpegPath = ""
    /\ urlError' = ""
    /\ curClosure' = IF urlError # "" THEN 0 ELSE curClosure
    /\ toast' = [toast EXCEPT ![r] =
                   [style |-> "Failure", title |-> "Missing Dependencies",
                    message |-> "yt-dlp or ffmpeg not found.", details |-> "",
                    primaryAction |-> ""]]
    /\ UNCHANGED <<settingsVars, formVars, selectedPreset, estimateVars, isLoading,
                   activeProcessRef, fullOutput, toastVar, pc, closure, req, args, spawns,
                   proc, cancelRequested, outcome>>

\* Submit without the validation of the URL
SubmitUnvalidated(r) ==
    /\ pc[r] = "idle"
    /\ IF r = 1 THEN TRUE ELSE pc[r - 1] # "idle"
    /\ ytDlpPath # "" /\ ffmpegPath # ""
    /\ LET c == IF curClosure = 0 THEN r ELSE curClosure
       IN  /\ closure' = [closure EXCEPT ![r] = c]
           /\ fullOutput' = [fullOutput EXCEPT ![c] = ""]
           /\ toastVar' = [toastVar EXCEPT ![c] = IF curClosure = 0 THEN 0 ELSE @]
           /\ curClosure' = IF urlError # "" THEN 0 ELSE AfterSetIsLoading(TRUE, c)
    /\ isLoading' = TRUE
    /\ req' = [req EXCEPT ![r] =
                 [url |-> url, downloadType |-> downloadType, videoQuality |-> videoQuality,
                  mp3Quality |-> mp3Quality, compressionLevel |-> compressionLevel,
                  compressionCrf |-> compressionCrf, outputPath |-> outputPath,
                  ytDlpPath |-> ytDlpPath, ffmpegPath |-> ffmpegPath]]
    /\ toast' = [toast EXCEPT ![r] =
                   [style |-> "Animated", title |-> "Starting Download...",
                    message |-> "Preparing to download " \o url, details |-> "",
                    primaryAction |-> "Cancel Download"]]
    /\ pc' = [pc EXCEPT ![r] = "toast"]
    /\ urlError' = ""
    /\ UNCHANGED <<settingsVars, formVars, selectedPreset, estimateVars, activeProcessRef,
                   args, spawns, proc, cancelRequested, outcome>>

\* lines 776-801: the guards, setIsLoading(true), the reset of fullOutput and
\* the call of showToast
Submit(r) ==
    /\ pc[r] = "idle"
    /\ IF r = 1 THEN TRUE ELSE pc[r - 1] # "idle"
    /\ validateUrl(url)
    /\ ytDlpPath # "" /\ ffmpegPath # ""
    /\ LET c == IF curClosure = 0 THEN r ELSE curClosure
       IN  /\ closure' = [closure EXCEPT ![r] = c]
           /\ fullOutput' = [fullOutput EXCEPT ![c] = ""]
           /\ toastVar' = [toastVar EXCEPT ![c] = IF curClosure = 0 THEN 0 ELSE @]
           /\ curClosure' = IF urlError # "" THEN 0 ELSE AfterSetIsLoading(TRUE, c)
    /\ isLoading' = TRUE
    /\ req' = [req EXCEPT ![r] =
                 [url |-> url, downloadType |-> downloadType, videoQuality |-> videoQuality,
                  mp3Quality |-> mp3Quality, compressionLevel |-> compressionLevel,
                  compressionCrf |-> compressionCrf, outputPath |-> outputPath,
                  ytDlpPath |-> ytDlpPath, ffmpegPath |-> ffmpegPath]]
    /\ toast' = [toast EXCEPT ![r] =
                   [style |-> "Animated", title |-> "Starting Download...",
                    message |-> "Preparing to download " \o url, details |-> "",
                    primaryAction |-> "Cancel Download"]]
    /\ pc' = [pc EXCEPT ![r] = "toast"]
    /\ urlError' = ""
    /\ UNCHANGED <<settingsVars, formVars, selectedPreset, estimateVars, activeProcessRef,
                   args, spawns, proc, cancelRequested, outcome>>

\* lines 793-923: showToast resolved; the arguments are built, the process is
\* spawned and stored in activeProcessRef, the listeners are attached
Spawn(r) ==
    /\ pc[r] = "toast"
    /\ toastVar' = [toastVar EXCEPT ![closure[r]] = r]
    /\ args' = [args EXCEPT ![r] = BuildArgs(req[r])]
    /\ activeProcessRef' = r
    /\ spawns' = [spawns EXCEPT ![r] = @ + 1]
    /\ proc' = [proc EXCEPT ![r] =
                 [NoProc EXCEPT !.state = "running",
                                !.command = CommandOf(req[r].ytDlpPath, BuildArgs(req[r]))]]
    /\ pc' = [pc EXCEPT ![r] = "running"]
    /\ UNCHANGED <<settingsVars, formVars, auxVars, isLoading, curClosure, fullOutput, closure,
                   req, toast, cancelRequested, outcome>>

\* lines 786-791: the primary action of request t's toast.  It kills whatever
\* process activeProcessRef holds.
cancelDownload(t) ==
    /\ toast[t].primaryAction = "Cancel Download"
    /\ proc' = IF activeProcessRef # 0
               THEN [proc EXCEPT ![activeProcessRef].killed = TRUE]
               ELSE proc
    /\ cancelRequested' = [cancelRequested EXCEPT ![t] = @ \/ pc[t] = "running"]
    /\ UNCHANGED <<settingsVars, formVars, auxVars, isLoading, activeProcessRef, curClosure,
                   closureVars, pc, closure, req, args, spawns, toast, outcome>>

\* streamOutput whose listener still receives chunks after the await of line
\* 923 has settled
streamOutputAfterExit(r, chunk, max) ==
    /\ pc[r] \in {"running", "closing", "done"}
    /\ proc[r].chunks < max
    /\ proc' = [proc EXCEPT ![r].chunks = @ + 1,
                            ![r].stdout = IF IsStderr(chunk) THEN @ ELSE @ \o chunk,
                            ![r].stderr = IF IsStderr(chunk) THEN @ \o chunk ELSE @]
    /\ fullOutput' = [fullOutput EXCEPT ![closure[r]] = @ \o chunk]
    /\ toast' = IF ProgressMatch(chunk) # "" /\ toastVar[closure[r]] # 0
                THEN [toast EXCEPT ![toastVar[closure[r]]].message = ProgressMessage(chunk)]
                ELSE toast
    /\ UNCHANGED <<settingsVars, formVars, auxVars, isLoading, activeProcessRef, curClosure,
                   toastVar, pc, closure, req, args, spawns, cancelRequested, outcome>>

\* streamOutput with both regular expressions run on the accumulated output
\* instead of the chunk
streamOutputAccumulated(r, chunk, max) ==
    /\ pc[r] = "running"
    /\ proc[r].chunks < max
    /\ proc' = [proc EXCEPT ![r].chunks = @ + 1,
                            ![r].stdout = IF IsStderr(chunk) THEN @ ELSE @ \o chunk,
                            ![r].stderr = IF IsStderr(chunk) THEN @ \o chunk ELSE @]
    /\ fullOutput' = [fullOutput EXCEPT ![closure[r]] = @ \o chunk]
    /\ toast' = IF ProgressMatch(fullOutput[closure[r]] \o chunk) # "" /\ toastVar[closure[r]] # 0
                THEN [toast EXCEPT ![toastVar[closure[r]]].message =
                                        ProgressMessage(fullOutput[closure[r]] \o chunk)]
                ELSE toast
    /\ UNCHANGED <<settingsVars, formVars, auxVars, isLoading, activeProcessRef, curClosure,
                   toastVar, pc, closure, req, args, spawns, cancelRequested, outcome>>

\* lines 725-773: a chunk of output arrives on stdout or stderr
streamOutput(r, chunk, max) ==
    /\ pc[r] = "running"
    /\ proc[r].chunks < max
    /\ proc' = [proc EXCEPT ![r].chunks = @ + 1,
                            ![r].stdout = IF IsStderr(chunk) THEN @ ELSE @ \o chunk,
                            ![r].stderr = IF IsStderr(chunk) THEN @ \o chunk ELSE @]
    /\ fullOutput' = [fullOutput EXCEPT ![closure[r]] = @ \o chunk]
    /\ toast' = IF ProgressMatch(chunk) # "" /\ toastVar[closure[r]] # 0
                THEN [toast EXCEPT ![toastVar[closure[r]]].message = ProgressMessage(chunk)]
                ELSE toast
    /\ UNCHANGED <<settingsVars, formVars, auxVars, isLoading, activeProcessRef, curClosure,
                   toastVar, pc, closure, req, args, spawns, cancelRequested, outcome>>

\* ExitOk without line 924: the handle is kept after the process ended
ExitOkKeepsHandle(r) ==
    /\ pc[r] = "running"
    /\ outcome' = [outcome EXCEPT ![r] =
                      SuccessResult(fullOutput[closure[r]],
                                    FinalExtension(req[r].downloadType), req[r].outputPath)]
    /\ toast' = [toast EXCEPT ![toastVar[closure[r]]] = outcome'[r]]
    /\ proc' = [proc EXCEPT ![r].state = "exited", ![r].exit = "ok"]
    /\ pc' = [pc EXCEPT ![r] = "closing"]
    /\ UNCHANGED <<settingsVars, formVars, auxVars, isLoading, activeProcessRef, curClosure,
                   closureVars, closure, req, args, spawns, cancelRequested>>

\* lines 923-943: the process exited with code 0; the await resolves
ExitOk(r) ==
    /\ pc[r] = "running"
    /\ outcome' = [outcome EXCEPT ![r] =
                      SuccessResult(fullOutput[closure[r]],
                                    FinalExtension(req[r].downloadType), req[r].outputPath)]
    /\ toast' = [toast EXCEPT ![toastVar[closure[r]]] = outcome'[r]]
    /\ activeProcessRef' = 0
    /\ proc' = [proc EXCEPT ![r].state = "exited", ![r].exit = "ok"]
    /\ pc' = [pc EXCEPT ![r] = "closing"]
    /\ UNCHANGED <<settingsVars, formVars, auxVars, isLoading, curClosure, closureVars, closure,
                   req, args, spawns, cancelRequested>>

\* Catch that hands a failed request back to the spawn step
CatchThenRespawn(r, err) ==
    /\ outcome' = [outcome EXCEPT ![r] =
                      CatchResult(err, fullOutput[closure[r]], req[r].ytDlpPath)]
    /\ toast' = [toast EXCEPT ![toastVar[closure[r]]] = outcome'[r]]
    /\ activeProcessRef' = 0
    /\ isLoading' = FALSE
    /\ curClosure' = AfterSetIsLoading(FALSE, curClosure)
    /\ pc' = [pc EXCEPT ![r] = "toast"]
    /\ UNCHANGED <<settingsVars, formVars, auxVars, closureVars, closure, req, args, spawns,
                   cancelRequested>>

\* lines 945-1020: the catch block and finally, for the error err
Catch(r, err) ==
    /\ outcome' = [outcome EXCEPT ![r] =
                      CatchResult(err, fullOutput[closure[r]], req[r].ytDlpPath)]
    /\ toast' = [toast EXCEPT ![toastVar[closure[r]]] = outcome'[r]]
    /\ activeProcessRef' = 0
    /\ isLoading' = FALSE
    /\ curClosure' = AfterSetIsLoading(FALSE, curClosure)
    /\ pc' = [pc EXCEPT ![r] = "done"]
    /\ UNCHANGED <<settingsVars, formVars, auxVars, closureVars, closure, req, args, spawns,
                   cancelRequested>>

\* the await of line 923 rejects: the process ended in the way `how`
Reject(r, how, flagged) ==
    /\ proc' = [proc EXCEPT ![r].state = "exited", ![r].exit = how]
    /\ Catch(r, ExecaError(how, flagged, proc[r].command, proc[r].stdout, proc[r].stderr))

\* the process exited with a non-zero code
ExitFail(r) ==
    /\ pc[r] = "running"
    /\ Reject(r, "fail", FALSE)

\* the process died of the SIGTERM that kill() sent
ExitSignal(r) ==
    /\ pc[r] = "running"
    /\ proc[r].killed
    /\ Reject(r, "signal", FALSE)

\* line 919, timeout: 900000: execa's timer ends the process
Timeout(r) ==
    /\ pc[r] = "running"
    /\ \E flagged \in BOOLEAN : Reject(r, "timeout", flagged)

\* line 919: the executable could not be spawned; no output was produced
SpawnError(r) ==
    /\ pc[r] = "running"
    /\ proc[r].chunks = 0
    /\ ~proc[r].killed
    /\ Reject(r, "enoent", FALSE)

\* lines 943-944 and 1018-1020: the window closed; finally
CloseOk(r) ==
    /\ pc[r] = "closing"
    /\ isLoading' = FALSE
    /\ curClosure' = AfterSetIsLoading(FALSE, curClosure)
    /\ pc' = [pc EXCEPT ![r] = "done"]
    /\ UNCHANGED <<settingsVars, formVars, auxVars, activeProcessRef, closureVars, closure, req,
                   args, spawns, toast, proc, cancelRequested, outcome>>

\* line 944 throws inside the try block: the catch block runs
CloseFail(r) ==
    /\ pc[r] = "closing"
    /\ UNCHANGED proc
    /\ Catch(r, CloseError)

\* any other state change renders the component again (a new closure)
Render ==
    /\ curClosure # 0
    /\ curClosure' = 0
    /\ UNCHANGED <<settingsVars, formVars, auxVars, isLoading, activeProcessRef, closureVars, pc,
                   closure, req, args, spawns, toast, proc, cancelRequested, outcome>>

----------------------------------------------------------------------------
(* The effects (lines 509-513 and 534-558) that React runs after the render  *)
(* that follows a change of their dependencies, and the metadata call.       *)

\* lines 509-513: the estimate effect of the render whose state is u, current.
\* validateUrl sets urlError; a valid URL starts getVideoInfoAndEstimate, which
\* then awaits execa (line 585)
EstimateEffect(u, current) ==
    IF u # "" /\ ytDlpPath # ""
    THEN /\ urlError' = UrlErrorOf(u)
         /\ infoCalls' = IF validateUrl(u) THEN infoCalls \cup {InfoCall(u, current)}
                          ELSE infoCalls
         /\ UNCHANGED <<estimatedSize, videoInfo, estimateOf>>
    ELSE UNCHANGED <<urlError, estimateVars>>

\* both effects, after a render in which the settings became `current`
SettingsEffects(current) ==
    /\ selectedPreset' = DetectPreset(current)
    /\ EstimateEffect(url, current)

\* lines 586-668: the metadata call c resolved with a duration
InfoOk(c, duration) ==
    /\ c \in infoCalls
    /\ infoCalls' = infoCalls \ {c}
    /\ videoInfo' = [present |-> TRUE, duration |-> duration]
    /\ estimatedSize' = FormatEstimate(EstimateNum(c.settings, duration))
    /\ estimateOf' = [call |-> c, duration |-> duration]
    /\ curClosure' = 0
    /\ UNCHANGED <<settingsVars, formVars, selectedPreset, urlError, isLoading,
                   activeProcessRef, closureVars, pc, closure, req, args, spawns, toast,
                   proc, cancelRequested, outcome>>

\* InfoFail that also stops the spinner of a download in progress
InfoFailStopsLoading(c) ==
    /\ c \in infoCalls
    /\ infoCalls' = infoCalls \ {c}
    /\ videoInfo' = NoInfo
    /\ estimatedSize' = ""
    /\ isLoading' = FALSE
    /\ curClosure' = IF videoInfo # NoInfo \/ estimatedSize # "" \/ isLoading THEN 0
                      ELSE curClosure
    /\ UNCHANGED <<settingsVars, formVars, selectedPreset, urlError, estimateOf,
                   activeProcessRef, closureVars, pc, closure, req, args, spawns, toast,
                   proc, cancelRequested, outcome>>

\* lines 669-673: the metadata call c failed, timed out (30 s), or its output
\* was not JSON
InfoFail(c) ==
    /\ c \in infoCalls
    /\ infoCalls' = infoCalls \ {c}
    /\ videoInfo' = NoInfo
    /\ estimatedSize' = ""
    /\ curClosure' = IF videoInfo # NoInfo \/ estimatedSize # "" THEN 0 ELSE curClosure
    /\ UNCHANGED <<settingsVars, formVars, selectedPreset, urlError, estimateOf, isLoading,
                   activeProcessRef, closureVars, pc, closure, req, args, spawns, toast,
                   proc, cancelRequested, outcome>>

\* line 1077: onChange of the URL field
setUrl(v) ==
    /\ v # url
    /\ url' = v
    /\ curClosure' = 0
    /\ UNCHANGED selectedPreset
    /\ EstimateEffect(v, Settings(downloadType, videoQuality, compressionLevel,
                                  compressionCrf, mp3Quality))
    /\ UNCHANGED <<settingsVars, outputPath, ytDlpPath, ffmpegPath, isLoading,
                   activeProcessRef, closureVars, pc, closure, req, args, spawns, toast,
                   proc, cancelRequested, outcome>>

\* applyPreset that leaves the MP3 quality as it is
applyPresetWithoutMp3(presetKey) ==
    /\ presetKey # selectedPreset
    /\ LET preset == [presets[presetKey] EXCEPT !.mp3Quality = mp3Quality]
           current == Settings(downloadType, videoQuality, compressionLevel,
                               compressionCrf, mp3Quality)
       IN  IF presetKey = "custom"
           THEN /\ selectedPreset' = "custom"
                /\ UNCHANGED <<settingsVars, urlError, estimateVars>>
           ELSE /\ downloadType' = preset.downloadType
                /\ videoQuality' = preset.videoQuality
                /\ compressionLevel' = preset.compressionLevel
                /\ compressionCrf' = preset.compressionCrf
                /\ mp3Quality' = preset.mp3Quality
                /\ IF preset # current
                   THEN SettingsEffects(preset)
                   ELSE /\ selectedPreset' = presetKey
                        /\ UNCHANGED <<urlError, estimateVars>>
    /\ curClosure' = 0
    /\ UNCHANGED <<formVars, isLoading, activeProcessRef, closureVars, pc, closure, req,
                   args, spawns, toast, proc, cancelRequested, outcome>>

\* lines 516-531: onChange of the preset dropdown, and the effects of the
\* render that follows when a setting changed
applyPreset(presetKey) ==
    /\ presetKey # selectedPreset
    /\ LET current == Settings(downloadType, videoQuality, compressionLevel,
                               compressionCrf, mp3Quality)
           preset == presets[presetKey]
       IN  IF presetKey = "custom"
           THEN /\ selectedPreset' = "custom"
                /\ UNCHANGED <<settingsVars, urlError, estimateVars>>
           ELSE /\ downloadType' = preset.downloadType
                /\ videoQuality' = preset.videoQuality
                /\ compressionLevel' = preset.compressionLevel
                /\ compressionCrf' = preset.compressionCrf
                /\ mp3Quality' = preset.mp3Quality
                /\ IF preset # current
                   THEN SettingsEffects(preset)
                   ELSE /\ selectedPreset' = presetKey
                        /\ UNCHANGED <<urlError, estimateVars>>
    /\ curClosure' = 0
    /\ UNCHANGED <<formVars, isLoading, activeProcessRef, closureVars, pc, closure, req,
                   args, spawns, toast, proc, cancelRequested, outcome>>

----------------------------------------------------------------------------
(* The form's dropdowns (JSX, lines 1088-1140): each onChange is the state   *)
(* setter, followed by the effects of the render it causes; a dropdown       *)
(* exists only while its condition renders it.                               *)

setDownloadType(v) ==
    /\ v # downloadType
    /\ downloadType' = v
    /\ SettingsEffects(Settings(v, videoQuality, compressionLevel, compressionCrf, mp3Quality))
    /\ curClosure' = 0
    /\ UNCHANGED <<videoQuality, mp3Quality, compressionLevel, compressionCrf, formVars,
                   isLoading, activeProcessRef, closureVars, pc, closure, req, args,
                   spawns, toast, proc, cancelRequested, outcome>>

setVideoQuality(v) ==
    /\ IsVideoType(downloadType)
    /\ v # videoQuality
    /\ videoQuality' = v
    /\ SettingsEffects(Settings(downloadType, v, compressionLevel, compressionCrf, mp3Quality))
    /\ curClosure' = 0
    /\ UNCHANGED <<downloadType, mp3Quality, compressionLevel, compressionCrf, formVars,
                   isLoading, activeProcessRef, closureVars, pc, closure, req, args,
                   spawns, toast, proc, cancelRequested, outcome>>

setCompressionLevel(v) ==
    /\ IsVideoType(downloadType)
    /\ v # compressionLevel
    /\ compressionLevel' = v
    /\ SettingsEffects(Settings(downloadType, videoQuality, v, compressionCrf, mp3Quality))
    /\ curClosure' = 0
    /\ UNCHANGED <<downloadType, videoQuality, mp3Quality, compressionCrf, formVars,
                   isLoading, activeProcessRef, closureVars, pc, closure, req, args,
                   spawns, toast, proc, cancelRequested, outcome>>

setCompressionCrf(v) ==
    /\ IsVideoType(downloadType)
    /\ compressionLevel = "custom"
    /\ v # compressionCrf
    /\ compressionCrf' = v
    /\ SettingsEffects(Settings(downloadType, videoQuality, compressionLevel, v, mp3Quality))
    /\ curClosure' = 0
    /\ UNCHANGED <<downloadType, videoQuality, mp3Quality, compressionLevel, formVars,
                   isLoading, activeProcessRef, closureVars, pc, closure, req, args,
                   spawns, toast, proc, cancelRequested, outcome>>

setMp3Quality(v) ==
    /\ downloadType = "mp3_audio"
    /\ v # mp3Quality
    /\ mp3Quality' = v
    /\ SettingsEffects(Settings(downloadType, videoQuality, compressionLevel, compressionCrf, v))
    /\ curClosure' = 0
    /\ UNCHANGED <<downloadType, videoQuality, compressionLevel, compressionCrf, formVars,
                   isLoading, activeProcessRef, closureVars, pc, closure, req, args,
                   spawns, toast, proc, cancelRequested, outcome>>

EditForm ==
    \/ \E v \in DownloadTypes : setDownloadType(v)
    \/ \E v \in VideoQualities : setVideoQuality(v)
    \/ \E v \in CompressionLevels : setCompressionLevel(v)
    \/ \E v \in CrfValues : setCompressionCrf(v)
    \/ \E v \in Mp3Qualities : setMp3Quality(v)

----------------------------------------------------------------------------
(* Specifications. *)

Step(r, chunks, max) ==
    \/ Submit(r)
    \/ Spawn(r)
    \/ cancelDownload(r)
    \/ \E chunk \in chunks : streamOutput(r, chunk, max)
    \/ ExitOk(r)
    \/ ExitFail(r)
    \/ ExitSignal(r)
    \/ Timeout(r)
    \/ SpawnError(r)
    \/ CloseOk(r)
    \/ CloseFail(r)

\* the lifecycle specification: overlapping submissions of the default form
Next == Render \/ \E r \in Requests : Step(r, LifeChunks, MaxChunks)

Spec == Init /\ [][Next]_vars

\* the classification specification: one submission, every kind of output
NextClassify == Step(1, ClassifyChunks, MaxLines)

SpecClassify == Init /\ [][NextClassify]_vars

\* the file name specification: one submission of each download type that
\* ends with a zero exit
InitFileName ==
    \E dt \in DownloadTypes :
        FormState("https://youtu.be/abc", "ffmpeg", [DefaultSettings EXCEPT !.downloadType = dt])

NextFileName ==
    \/ Submit(1)
    \/ Spawn(1)
    \/ \E chunk \in FileNameChunks : streamOutput(1, chunk, MaxLines)
    \/ ExitOk(1)
    \/ CloseOk(1)

SpecFileName == InitFileName /\ [][NextFileName]_vars

\* the conversion specification: one submission whose process prints sizes
\* and speeds in every unit
NextConvert ==
    \/ Submit(1)
    \/ Spawn(1)
    \/ \E chunk \in ConvertChunks : streamOutput(1, chunk, MaxChunks)
    \/ ExitOk(1)

SpecConvert == Init /\ [][NextConvert]_vars

\* the preset specification: the preset dropdown and the five settings of a
\* form without a URL
InitPreset == InitForm("", "ffmpeg")

NextPreset ==
    \/ EditForm
    \/ \E i \in 1..Len(PresetKeys) : applyPreset(PresetKeys[i])

SpecPreset == InitPreset /\ [][NextPreset]_vars

\* the ETA specification: one submission whose process prints one progress
\* chunk
NextEta ==
    \/ Submit(1)
    \/ Spawn(1)
    \/ \E chunk \in EtaChunks : streamOutput(1, chunk, MaxChunks)
    \/ ExitOk(1)

SpecEta == Init /\ [][NextEta]_vars

\* the progress specification: one submission, its progress lines
NextProgress ==
    \/ Submit(1)
    \/ Spawn(1)
    \/ \E chunk \in ProgressChunks : streamOutput(1, chunk, MaxSamples)
    \/ ExitOk(1)

SpecProgress == Init /\ [][NextProgress]_vars

\* the stale-estimate specification: the video quality changes while metadata
\* calls are in flight, and the calls complete in any order
NextStale ==
    \/ Cardinality(infoCalls) < MaxPending
            /\ \E v \in VideoQualities : setVideoQuality(v)
    \/ \E c \in infoCalls, duration \in Durations : InfoOk(c, duration)
    \/ \E c \in infoCalls : InfoFail(c)

SpecStale == Init /\ [][NextStale]_vars

\* the preset submission specification: presets are chosen in the dropdown
\* while no download runs, and the form is submitted
NextApply ==
    \/ (\A r \in Requests : pc[r] = "idle")
            /\ \E i \in 1..Len(PresetKeys) : applyPreset(PresetKeys[i])
    \/ Submit(1)
    \/ Spawn(1)

SpecApply == Init /\ [][NextApply]_vars

\* the submission specification: the form in any state initialize() can leave
\* it in, edited while no download runs, and submitted
InitSubmit ==
    \E u \in UrlValues, ytDlp \in {"", "yt-dlp"}, ffmpeg \in {"", "ffmpeg"} :
        FormStateWith(u, ytDlp, ffmpeg, DefaultSettings)

NextSubmit ==
    \/ (\A r \in Requests : pc[r] = "idle") /\ \E v \in UrlValues : setUrl(v)
    \/ (\A r \in Requests : pc[r] = "idle")
            /\ \E v \in DownloadTypes : setDownloadType(v)
    \/ SubmitInvalidUrl(1)
    \/ SubmitMissingDependencies(1)
    \/ Submit(1)
    \/ Spawn(1)

SpecSubmit == InitSubmit /\ [][NextSubmit]_vars

\* the planning specification: the form is edited and the URL entered, then
\* the form is submitted and the process spawned
InitPlan == \E ffmpeg \in {"ffmpeg", "/opt/homebrew/bin/ffmpeg"} : InitForm("", ffmpeg)

NextPlan ==
    \/ (\A r \in Requests : pc[r] = "idle") /\ infoCalls = {} /\ EditForm
    \/ (\A r \in Requests : pc[r] = "idle") /\ infoCalls = {}
            /\ \E v \in UrlValues : setUrl(v)
    \/ Submit(1)
    \/ Spawn(1)

SpecPlan == InitPlan /\ [][NextPlan]_vars

\* the estimate specification: the form holds a valid URL and any settings the
\* dropdowns can produce; the metadata call returns or fails, the URL is
\* edited, the form is submitted
AllSettings ==
    {Settings(dt, vq, cl, crf, mp3) :
        dt \in DownloadTypes, vq \in VideoQualities, cl \in CompressionLevels,
        crf \in CrfValues, mp3 \in Mp3Qualities}

InitEstimate == \E current \in AllSettings : FormState("https://youtu.be/abc", "ffmpeg", current)

NextEstimate ==
    \/ \E c \in infoCalls, duration \in Durations : InfoOk(c, duration)
    \/ \E c \in infoCalls : InfoFail(c)
    \/ Cardinality(infoCalls) < MaxInfoCalls
            /\ \E v \in {"", "https://youtu.be/abc"} : setUrl(v)
    \/ Submit(1)
    \/ Spawn(1)

SpecEstimate == InitEstimate /\ [][NextEstimate]_vars

\* the metadata specification: the same steps, from the default settings or
\* those of a preset
PresetSettings == {presets[PresetKeys[i]] : i \in 1..Len(PresetKeys)}

InitMetadata ==
    \E current \in PresetSettings : FormState("https://youtu.be/abc", "ffmpeg", current)

SpecMetadata == InitMetadata /\ [][NextEstimate]_vars

----------------------------------------------------------------------------
(* Vocabulary of the properties. *)

\* the text the handler of request r classifies
Accumulated(r) == fullOutput[closure[r]]

\* the handler of request r has posted the outcome of its process
Posted(r) == pc[r] \in {"closing", "done"}

\* the process of request r ended in a failure that is neither a timeout nor a
\* spawn failure, and the user did not ask to cancel it
PlainFailure(r) == pc[r] = "done" /\ proc[r].exit = "fail" /\ ~cancelRequested[r]

\* the argument that follows the first occurrence of flag, "" if flag is absent
ArgAfter(argv, flag) ==
    LET at == {i \in 1..(Len(argv) - 1) : argv[i] = flag}
    IN  IF at = {} THEN "" ELSE argv[(CHOOSE i \in at : \A j \in at : i <= j) + 1]

CountArg(argv, flag) == Cardinality({i \in 1..Len(argv) : argv[i] = flag})

\* the alternatives of the format expression request r passed to yt-dlp
Alternatives(r) == Split(ArgAfter(args[r], "-f"), "/")

\* the marker table of the classifier, in priority order
MarkerTable ==
    << <<"Unsupported URL", MsgUnsupportedUrl>>,
       <<"Video unavailable", MsgVideoUnavailable>>,
       <<"Requested format is not available", MsgFormatUnavailable>>,
       <<"nsig extraction failed", MsgNsig>>,
       <<"Some formats may be missing", MsgFormatsMissing>>,
       <<"HTTP Error 403", MsgAccessDenied>>,
       <<"Private video", MsgPrivateVideo>>,
       <<"This live event has ended", MsgLiveEnded>> >>

MarkersPresent(text) == {i \in 1..Len(MarkerTable) : Includes(text, MarkerTable[i][1])}

----------------------------------------------------------------------------
(* C1: once the user has triggered Cancel Download while the request's      *)
(* process ran, the request ends as Cancelled (title "Download Cancelled",  *)
(* the fixed message), whatever the exit and the accumulated text.          *)
C1_CancelYieldsCancelled ==
    \A r \in Requests :
        (cancelRequested[r] /\ pc[r] = "done")
            => /\ outcome[r].title = "Download Cancelled"
               /\ outcome[r].message = MsgCancelled

(* C2: for both video modes and every quality other than best, the format   *)
(* expression is not empty and its last alternative is the unconstrained    *)
(* "best".                                                                  *)
C2_LastAlternativeIsBest ==
    \A r \in Requests :
        (pc[r] = "running" /\ IsVideoType(req[r].downloadType)
                           /\ req[r].videoQuality # "best")
            => /\ ArgAfter(args[r], "-f") # ""
               /\ Alternatives(r)[Len(Alternatives(r))] = "best"

NoEarlierThanPrivate(text) == \A i \in MarkersPresent(text) : i >= 7

C4_Precedence ==
    \A r \in Requests :
        (pc[r] = "done" /\ proc[r].exit # "ok")
            => IF cancelRequested[r]
               THEN outcome[r].title = "Download Cancelled"
               ELSE IF proc[r].exit = "timeout"
               THEN outcome[r].message = MsgTimeout
               ELSE IF proc[r].exit = "enoent"
               THEN StartsWith(outcome[r].message, "Failed to execute ")
               ELSE outcome[r].title = "Download Failed"

\* the first line of text that begins with "error:", in any letter case
FirstErrorLine(text) ==
    LET lines == Split(text, "\n")
        at == {i \in 1..Len(lines) : LineIsError(lines[i])}
    IN  IF at = {} THEN "" ELSE lines[CHOOSE i \in at : \A j \in at : i <= j]

(* C5: for a plain failure the message is that of the earliest marker of    *)
(* the table present in the accumulated text; with no marker present it is  *)
(* the first line that begins with the error marker (capped at 250          *)
(* characters).                                                             *)
C5_FirstMatchWins ==
    \A r \in Requests :
        (PlainFailure(r) /\ Accumulated(r) # "")
            => LET present == MarkersPresent(Accumulated(r))
               IN  /\ outcome[r].title = "Download Failed"
                   /\ present # {}
                        => outcome[r].message =
                              MarkerTable[CHOOSE i \in present :
                                              \A j \in present : i <= j][2]
                   /\ (present = {} /\ FirstErrorLine(Accumulated(r)) # "")
                        => outcome[r].message =
                              Substring0(FirstErrorLine(Accumulated(r)), 250)

C5_Witness ==
    \E r \in Requests :
        /\ PlainFailure(r)
        /\ Includes(Accumulated(r), "nsig extraction failed")
        /\ Includes(Accumulated(r), "Requested format is not available")
        /\ IndexOf(Accumulated(r), "nsig extraction failed")
              < IndexOf(Accumulated(r), "Requested format is not available")
        /\ outcome[r].message = MsgFormatUnavailable

C7_Isolation ==
    \A r \in Requests :
        /\ pc[r] = "running" => activeProcessRef = r
        /\ proc[r].killed => cancelRequested[r]
        /\ pc[r] # "idle" => closure[r] = r
        /\ pc[r] \in {"running", "closing", "done"} => toastVar[closure[r]] = r

(* C8: a process that has neither exited nor been cancelled when the 900 s  *)
(* ceiling elapses ends as Failed with "Download timed out.".               *)
C8_TimeoutOutcome ==
    \A r \in Requests :
        (pc[r] = "done" /\ proc[r].exit = "timeout" /\ ~cancelRequested[r])
            => /\ outcome[r].title = "Download Failed"
               /\ outcome[r].message = MsgTimeout

(* C9: a submission calls execa at most once, whatever its process ends     *)
(* with, and passes at most one format expression.                          *)
C9_SpawnAtMostOnce ==
    \A r \in Requests :
        /\ spawns[r] <= 1
        /\ pc[r] \in {"running", "closing", "done"} => spawns[r] = 1
        /\ CountArg(args[r], "-f") <= 1

C9_Witness ==
    \E r \in Requests :
        /\ pc[r] = "done"
        /\ proc[r].exit \in {"fail", "signal", "timeout"}
        /\ spawns[r] = 1

\* the encoder argument the claim gives for a CRF
EncoderArgument(dt, crf) ==
    "ffmpeg:-c:v libx264 -crf " \o crf
    \o (IF dt = "mp4_video_audio" THEN " -c:a aac -b:a 128k" ELSE "")

ClaimedCrf(cl, custom) ==
    CASE cl = "light" -> "20"
      [] cl = "medium" -> "23"
      [] cl = "high" -> "28"
      [] cl = "custom" -> custom

(* C10: in both video modes, level none emits no post-processing argument;  *)
(* light, medium, high emit CRF 20, 23, 28 and custom the chosen CRF; with  *)
(* audio re-encoded at 128k for video+audio and no audio setting for video  *)
(* only.                                                                    *)
C10_CompressionArgs ==
    \A r \in Requests :
        (pc[r] = "running" /\ IsVideoType(req[r].downloadType))
            => IF req[r].compressionLevel = "none"
               THEN /\ CountArg(args[r], "--postprocessor-args") = 0
                    /\ \A i \in 1..Len(args[r]) : ~Includes(args[r][i], "-crf")
               ELSE /\ CountArg(args[r], "--postprocessor-args") = 1
                    /\ ArgAfter(args[r], "--postprocessor-args") =
                          EncoderArgument(req[r].downloadType,
                                          ClaimedCrf(req[r].compressionLevel,
                                                     req[r].compressionCrf))
                    /\ req[r].downloadType = "mp4_video_only"
                          => ~Includes(ArgAfter(args[r], "--postprocessor-args"), "-c:a")

C10_Witness ==
    \E r \in Requests :
        /\ pc[r] = "running"
        /\ req[r].downloadType = "mp4_video_only"
        /\ req[r].compressionLevel = "custom"
        /\ req[r].compressionCrf = "30"
        /\ ArgAfter(args[r], "--postprocessor-args") = "ffmpeg:-c:v libx264 -crf 30"

\* the CRF that the encoder argument of request r carries, "" if it has none
EmittedCrf(r) ==
    LET a == ArgAfter(args[r], "--postprocessor-args")
        i == IndexOf(a, "-crf ")
    IN  IF i = 0 THEN "" ELSE SubSeq(a, i + 5, i + 4 + RunLen(a, i + 5, DigitChars))

InCrfRange(crf) == crf # "" /\ ParseNat(crf) >= 18 /\ ParseNat(crf) <= 30

StatedBitrate(vq) ==
    CASE vq \in {"best", "2160p"} -> 8000
      [] vq = "1440p" -> 4000
      [] vq = "1080p" -> 2000
      [] vq = "720p" -> 1000
      [] vq = "480p" -> 500

StatedFactor(cl, crf) ==
    CASE cl = "none" -> 50
      [] cl = "light" -> 40
      [] cl = "medium" -> 30
      [] cl = "high" -> 20
      [] cl = "custom" -> Max(15, 50 - 2 * (ParseNat(crf) - 18))

StatedAudio(dt, cl, mp3) ==
    CASE dt = "mp4_video_audio" -> IF cl = "none" THEN 256 ELSE 128
      [] dt = "mp4_video_only" -> 0
      [] dt = "mp3_audio" ->
            (CASE mp3 = "0" -> 245 [] mp3 = "2" -> 190 [] mp3 = "5" -> 130
               [] mp3 = "320K" -> 320)
      [] dt = "m4a_audio" -> 256

\* the stated estimate in MB, times EstimateDen
StatedNum(c, duration) ==
    (IF IsVideoType(c.downloadType)
     THEN StatedBitrate(c.videoQuality) * StatedFactor(c.compressionLevel, c.compressionCrf)
     ELSE 0) * duration
    + StatedAudio(c.downloadType, c.compressionLevel, c.mp3Quality) * 50 * duration

(* C12: the estimate shown after a metadata call returned is the stated      *)
(* bitrate x factor x duration / 8192 MB (plus the audio share) of the       *)
(* settings and duration of that call; 600 s of 1080p video+audio without    *)
(* compression shows ~165 MB, 125 s of MP3 code 5 shows ~2 MB, custom CRF 18 *)
(* has factor 1.0 and CRF 30 factor 0.52.                                    *)
C12_EstimateFormula ==
    videoInfo.present
        => LET c == estimateOf.call.settings
               d == estimateOf.duration
           IN  /\ d = videoInfo.duration
               /\ estimatedSize = FormatEstimate(StatedNum(c, d))
               /\ (d = 600 /\ c.downloadType = "mp4_video_audio"
                           /\ c.videoQuality = "1080p" /\ c.compressionLevel = "none")
                     => estimatedSize = "~165 MB"
               /\ (d = 125 /\ c.downloadType = "mp3_audio" /\ c.mp3Quality = "5")
                     => estimatedSize = "~2 MB"
               /\ (d = 1200 /\ c.downloadType = "mp4_video_only" /\ c.videoQuality = "1440p"
                            /\ c.compressionLevel = "custom")
                     => /\ c.compressionCrf = "18" => estimatedSize = "~586 MB"
                        /\ c.compressionCrf = "30" => estimatedSize = "~305 MB"

C12_Witness ==
    /\ videoInfo.present
    /\ estimateOf.duration = 600
    /\ estimateOf.call.settings =
          Settings("mp4_video_audio", "1080p", "none", "23", "5")
    /\ estimatedSize = "~165 MB"

\* the download side of the state: everything but the URL error, the estimate,
\* the video info and the metadata calls
DownloadState ==
    <<settingsVars, formVars, selectedPreset, isLoading, activeProcessRef, closureVars,
      pc, closure, req, args, spawns, toast, proc, cancelRequested, outcome>>

(* C13: the failure of a metadata call only clears the estimate and the     *)
(* video info and changes nothing else; and whatever the state of the        *)
(* metadata call and the estimate, a form with a valid URL can be submitted  *)
(* and the submitted request spawns its download.                            *)
C13_MetadataNeverGates ==
    /\ \A c \in infoCalls :
          ~ENABLED (/\ InfoFail(c)
                    /\ ~(/\ estimatedSize' = ""
                         /\ ~videoInfo'.present
                         /\ UNCHANGED DownloadState))
    /\ (pc[1] = "idle" /\ validateUrl(url)) => ENABLED Submit(1)
    /\ pc[1] = "toast" => ENABLED Spawn(1)

C13_Witness ==
    /\ pc[1] = "running"
    /\ infoCalls = {}
    /\ ~videoInfo.present
    /\ estimatedSize = ""
    /\ estimateOf # NoEstimate

\* the message of the toast of request r
Displayed(r) == toast[toastVar[closure[r]]].message

\* the percentage each chunk of the progress specification carries, "" if none
SamplePercentage ==
    [chunk \in ProgressChunks |->
        CASE chunk = "[download]  10.0%\n" -> "10.0"
          [] chunk = "[download]  95.0%\n" -> "95.0"
          [] chunk = "[download]  12.0%\n" -> "12.0"
          [] chunk = "[download]  80.0%\n" -> "80.0"
          [] chunk = "[download]  42.5% of 100.00MiB at 2.50MiB/s ETA 00:23\n" -> "42.5"
          [] chunk = "[download] 1.5GiB of 3.0GiB at 500KiB/s\n[download]  50.0%\n" -> "50.0"
          [] chunk = "[download] 2048kb of 4MB at 1048576b/s\n[download]  50.0%\n" -> "50.0"
          [] OTHER -> ""]

(* C14: when a chunk of output arrives, the displayed progress becomes the
   percentage of that chunk, whatever was displayed before (so 12 is shown
   after 95), and a chunk that carries no percentage leaves every toast as it
   was. *)
C14_ProgressFromChunkAlone ==
    [][\A chunk \in ProgressChunks :
          (pc[1] = "running" /\ Accumulated(1)' = Accumulated(1) \o chunk) =>
              IF SamplePercentage[chunk] = "" THEN toast' = toast
              ELSE /\ StartsWith(Displayed(1)', "Downloading... " \o SamplePercentage[chunk] \o "%")
                   /\ \A t \in DOMAIN toast : t # toastVar[closure[1]] => toast'[t] = toast[t]]_vars

\* the percentages 10, 95, 12, 80 have arrived in this order and 80 is displayed
C14_Witness ==
    /\ pc[1] = "running"
    /\ Accumulated(1) = "[download]  10.0%\n" \o "[download]  95.0%\n"
                            \o "[download]  12.0%\n" \o "[download]  80.0%\n"
    /\ Displayed(1) = "Downloading... 80.0%"

\* request r's process has exited, or r's Cancel Download was already used
\* while the process ran
ExitedOrCancelling(r) == proc[r].state = "exited" \/ cancelRequested[r]

(* C15: a Cancel Download triggered from the toast of a request whose process
   has already exited, or that was already asked to cancel, kills nothing,
   spawns nothing and changes no toast and no outcome. *)
C15_CancelIdempotent ==
    [][\A t \in Requests :
          (ExitedOrCancelling(t) /\ cancelDownload(t)) =>
              UNCHANGED <<proc, spawns, toast, outcome, pc>>]_vars

(* C16: the message of every Failed or Cancelled outcome is at most 250
   characters long; a failure with no marker in its accumulated text shows
   the first error line, cut after its first 250 characters. *)
C16_MessageCapped ==
    \A r \in Requests :
        (Posted(r) /\ outcome[r].title \in {"Download Failed", "Download Cancelled"})
            => /\ Len(outcome[r].message) <= 250
               /\ (/\ PlainFailure(r)
                   /\ MarkersPresent(Accumulated(r)) = {}
                   /\ FirstErrorLine(Accumulated(r)) # "")
                     => /\ StartsWith(FirstErrorLine(Accumulated(r)), outcome[r].message)
                        /\ Len(outcome[r].message) = Min(250, Len(FirstErrorLine(Accumulated(r))))

\* an Unknown failure whose first error line is longer than 250 characters
C16_Witness ==
    /\ PlainFailure(1)
    /\ MarkersPresent(Accumulated(1)) = {}
    /\ Len(FirstErrorLine(Accumulated(1))) > 250
    /\ Len(outcome[1].message) = 250

\* the first line of text that begins with prefix (in any letter case), without
\* the prefix; "" if there is none
FirstLineAfter(text, prefix) ==
    LET lines == Split(text, "\n")
        at == {i \in 1..Len(lines) :
                  /\ Len(lines[i]) >= Len(prefix)
                  /\ EqualsIgnoreCase(SubSeq(lines[i], 1, Len(prefix)), prefix)}
        first == CHOOSE i \in at : \A j \in at : i <= j
    IN  IF at = {} THEN "" ELSE SubSeq(lines[first], Len(prefix) + 1, Len(lines[first]))

\* the path on the first Destination line of text, "" if there is none
FirstDestination(text) ==
    LET lines == Split(text, "\n")
        at == {i \in 1..Len(lines) :
                  \/ FirstLineAfter(lines[i], "[download] Destination: ") # ""
                  \/ FirstLineAfter(lines[i], "[ExtractAudio] Destination: ") # ""}
        first == lines[CHOOSE i \in at : \A j \in at : i <= j]
    IN  IF at = {} THEN ""
        ELSE IF FirstLineAfter(first, "[download] Destination: ") # ""
        THEN FirstLineAfter(first, "[download] Destination: ")
        ELSE FirstLineAfter(first, "[ExtractAudio] Destination: ")

\* the extension the claim states for each download type
StatedExtension(dt) ==
    CASE dt \in {"mp4_video_audio", "mp4_video_only"} -> "mp4"
      [] dt = "mp3_audio" -> "mp3"
      [] dt = "m4a_audio" -> "m4a"

\* the file name the fallback of the claim gives for the accumulated text
StatedFileName(text, dt) ==
    IF FirstDestination(text) # "" THEN Basename(FirstDestination(text))
    ELSE IF FirstLineAfter(text, "[info] ") # ""
    THEN FirstLineAfter(text, "[info] ") \o "." \o StatedExtension(dt)
    ELSE "Downloaded_File." \o StatedExtension(dt)

(* C17: after a zero exit the Success message names the base name of the path
   on the first Destination line of the accumulated output; without such a
   line, the text of the [info] line followed by the extension of the download
   type; without either, Downloaded_File. and that extension. *)
C17_FileNameFallback ==
    Posted(1) =>
        /\ outcome[1].title = "Download Complete!"
        /\ outcome[1].message =
              StatedFileName(Accumulated(1), req[1].downloadType) \o " saved to Downloads."

\* the numbers of the conversion specification as fractions
StatedNumber ==
    [n \in SampleNumbers |->
        CASE n = "1.5" -> <<3, 2>>
          [] n = "500" -> <<500, 1>>
          [] n = "2048" -> <<2048, 1>>
          [] n = "3" -> <<3, 1>>
          [] n = "0.5" -> <<1, 2>>]

\* the factor the claim states for each unit, as a fraction
StatedUnitFactor ==
    [u \in SampleUnits |->
        CASE u \in {"KB", "KiB", "kb", "kib"} -> <<1, 1024>>
          [] u \in {"MB", "MiB", "mib"} -> <<1, 1>>
          [] u \in {"GB", "GiB", "gb"} -> <<1024, 1>>
          [] OTHER -> <<1, 1048576>>]

\* the fraction x is the number n times the factor of the unit u
IsStatedMB(x, n, u) ==
    (x[1] * StatedNumber[n][2]) * StatedUnitFactor[u][2]
        = (StatedNumber[n][1] * StatedUnitFactor[u][1]) * x[2]

(* C18: for every number and unit the process prints, the size converter and
   the speed converter both give the number times the factor of the unit (KB
   and KiB 1/1024, MB and MiB 1, GB and GiB 1024, any other unit 1/1048576, in
   any letter case), so they agree; 1.5GiB is 1536 MB and 500KiB/s is 125/256
   (about 0.488) MB/s; the progress message shows the converted values. *)
C18_UnitsToMB ==
    \A n \in SampleNumbers, u \in SampleUnits :
        (pc[1] = "running" /\ Accumulated(1) = ConvertChunk(n, u)) =>
            LET groups == SizeMatch(Accumulated(1))
                size == parseSize(groups.downloaded)
                speed == parseSpeed(groups.speed)
            IN  /\ groups.downloaded = n \o u
                /\ groups.speed = n \o u \o "/s"
                /\ IsStatedMB(size, n, u)
                /\ speed = size
                /\ (n = "1.5" /\ u = "GiB") => size = <<1536, 1>>
                /\ (n = "500" /\ u = "KiB") =>
                        (speed = <<125, 256>> /\ 488 * 256 < 125 * 1000 /\ 125 * 1000 < 489 * 256)
                /\ StartsWith(Displayed(1),
                              "Downloading... 50.0% | " \o FracToFixed1(speed) \o " MB/s")

\* the process printed 1.5GiB and the toast shows 1536.0 MB
C18_Witness ==
    /\ pc[1] = "running"
    /\ Accumulated(1) = ConvertChunk("1.5", "GiB")
    /\ Displayed(1) = "Downloading... 50.0% | 1536.0 MB/s | 1536.0/4.0 MB"

\* the five settings of the form
CurrentSettings ==
    Settings(downloadType, videoQuality, compressionLevel, compressionCrf, mp3Quality)

NonCustomPresets == {PresetKeys[i] : i \in 1..Len(PresetKeys)} \ {"custom"}

(* C19: a step that applies a non-custom preset leaves the five settings equal
   to the values of that preset and the selected preset equal to the applied
   one; no two non-custom presets have the same five values. *)
C19_ApplyPresetSelectsIt ==
    [][\A k \in NonCustomPresets :
          applyPreset(k) =>
              /\ CurrentSettings' = presets[k]
              /\ selectedPreset' = k
              /\ \A other \in NonCustomPresets : presets[other] = presets[k] => other = k]_vars

\* Storage Saver was applied: its five values are set and it is selected
C19_Witness ==
    /\ selectedPreset = "storage-saver"
    /\ CurrentSettings = Settings("mp4_video_audio", "480p", "high", "30", "5")

(* C20: the selected preset is a non-custom preset exactly when the five
   settings equal the values of that preset, and it is custom exactly when
   they equal the values of no non-custom preset. *)
C20_PresetReflectsSettings ==
    /\ \A k \in NonCustomPresets : selectedPreset = k <=> CurrentSettings = presets[k]
    /\ selectedPreset = "custom" <=> \A k \in NonCustomPresets : CurrentSettings # presets[k]

(* C21: in every state the handle reference is non-null only while the
   request it refers to has a spawned subprocess whose outcome is not yet
   classified, and once a request's terminal outcome is posted the handle
   reference is null and the loading flag is false. *)
C21_HandleNullAfterOutcome ==
    /\ activeProcessRef # 0 => pc[activeProcessRef] = "running"
    /\ \A r \in Requests : Posted(r) => (activeProcessRef = 0 /\ isLoading = FALSE)

(* C21, amended: the handle reference is non-null only while the request it
   refers to has a spawned subprocess whose outcome is not yet classified;
   the step that posts a request's terminal outcome leaves the handle
   reference null, and the step that ends the handler of a request (after the
   wait and the closing of the window on Success) leaves the loading flag
   false. *)
C21_HandleOnlyWhileRunning ==
    [][/\ activeProcessRef' # 0 => pc'[activeProcessRef'] = "running"
       /\ \A r \in Requests :
             /\ (~Posted(r) /\ Posted(r)') => activeProcessRef' = 0
             /\ (pc[r] # "done" /\ pc'[r] = "done") => isLoading' = FALSE]_vars

\* both requests ended, one as Success and one as Failed
C21_Witness ==
    /\ pc[1] = "done" /\ pc[2] = "done"
    /\ {outcome[1].title, outcome[2].title} = {"Download Complete!", "Download Failed"}
    /\ activeProcessRef = 0
    /\ isLoading = FALSE

(* C22: once the terminal outcome of a request has been posted, the message
   its toast displays is the message of that outcome: no chunk of output
   replaces it by a progress message afterwards. *)
C22_OutcomeIsLastMessage ==
    \A r \in Requests :
        Posted(r) => /\ toast[r].message = outcome[r].message
                     /\ ~StartsWith(toast[r].message, "Downloading... ")

\* a progress line was displayed and the request then ended as Failed
C22_Witness ==
    /\ pc[1] = "done"
    /\ Includes(Accumulated(1), "[download]  42.5%")
    /\ toast[1].title = "Download Failed"
    /\ toast[1].message = outcome[1].message

\* the height cap the claim states for each capped quality
StatedCap ==
    [vq \in VideoQualities \ {"best"} |->
        CASE vq = "2160p" -> "[height<=2160]"
          [] vq = "1440p" -> "[height<=1440]"
          [] vq = "1080p" -> "[height<=1080]"
          [] vq = "720p" -> "[height<=720]"
          [] vq = "480p" -> "[height<=480]"]

\* the chain of the claim; cap is "" for Best
StatedChain(cap) ==
    << "bestvideo" \o cap \o "[ext=mp4]+bestaudio[ext=m4a]",
       "bestvideo" \o cap \o "[ext=mp4]+bestaudio",
       "bestvideo" \o cap \o "+bestaudio[ext=m4a]",
       "bestvideo" \o cap \o "+bestaudio",
       "best" \o cap \o "[ext=mp4]",
       "best" \o cap,
       "best[ext=mp4]",
       "best" >>

\* a sequence without the elements that repeat an earlier one
WithoutRepeats(seq) ==
    LET keep == {i \in 1..Len(seq) : \A j \in 1..(i - 1) : seq[j] # seq[i]}
        nth[k \in 1..Cardinality(keep)] ==
            CHOOSE i \in keep : Cardinality({j \in keep : j < i}) = k - 1
    IN  [k \in 1..Cardinality(keep) |-> seq[nth[k]]]

(* C23: a VideoAudio download with a numeric cap passes exactly the eight
   alternatives of the claim, in its order, every capped alternative carrying
   the requested height and preceding every uncapped one; for Best it passes
   the same chain without the cap (each alternative once); a VideoOnly
   expression has no alternative with a '+' audio part. *)
C23_VideoAudioChain ==
    pc[1] = "running" =>
        LET alts == Alternatives(1)
            vq == req[1].videoQuality
        IN  /\ (req[1].downloadType = "mp4_video_audio" /\ vq # "best") =>
                  /\ Len(alts) = 8
                  /\ alts = StatedChain(StatedCap[vq])
                  /\ \A i, j \in 1..Len(alts) :
                        (Includes(alts[i], "[height<=") /\ ~Includes(alts[j], "[height<="))
                            => i < j
                  /\ \A i \in 1..Len(alts) :
                        Includes(alts[i], "[height<=") => Includes(alts[i], StatedCap[vq])
            /\ (req[1].downloadType = "mp4_video_audio" /\ vq = "best") =>
                  alts = WithoutRepeats(StatedChain(""))
            /\ req[1].downloadType = "mp4_video_only" =>
                  \A i \in 1..Len(alts) : ~Includes(alts[i], "+")

\* a VideoAudio download capped at 720p was spawned with the eight alternatives
C23_Witness ==
    /\ pc[1] = "running"
    /\ req[1].downloadType = "mp4_video_audio"
    /\ req[1].videoQuality = "720p"
    /\ Len(Alternatives(1)) = 8
    /\ Alternatives(1)[1] = "bestvideo[height<=720][ext=mp4]+bestaudio[ext=m4a]"
    /\ Alternatives(1)[6] = "best[height<=720]"

\* the sizes and speeds of the ETA specification in KiB and KiB per second
StatedKiB ==
    [t \in EtaDownloaded \cup EtaTotals \cup EtaSpeeds |->
        CASE t = "0.0MiB" -> 0
          [] t = "10.0MiB" -> 10240
          [] t = "100.0MiB" -> 102400
          [] t = "200MiB" -> 204800
          [] t = "3.0GiB" -> 3145728
          [] t = "3600MiB" -> 3686400
          [] t = "0.0KiB" -> 0
          [] t = "1KiB" -> 1
          [] t = "500KiB" -> 500
          [] t = "1MiB" -> 1024
          [] t = "2.5MiB" -> 2560]

\* the ETA of the claim is shown: the speed is positive and the remaining size
\* divided by the speed is greater than 0 and less than 3600 seconds
StatedEtaShown(remaining, speed) ==
    speed > 0 /\ remaining > 0 /\ remaining \div speed < 3600

(* C24: the progress message of a chunk carries an ETA exactly when the chunk
   has a size and speed match, the speed is positive and (total - downloaded)
   / speed is greater than 0 and less than 3600 seconds; the ETA shown is that
   quotient in minutes and seconds; the percentage is reported in every
   case. *)
C24_EtaShownOnlyInRange ==
    /\ (pc[1] = "running"
            /\ Accumulated(1) = "[download]  42.5% of 100.00MiB at 2.50MiB/s ETA 00:23\n")
          => Displayed(1) = "Downloading... 42.5%"
    /\ \A d \in EtaDownloaded, t \in EtaTotals, v \in EtaSpeeds :
          (pc[1] = "running" /\ Accumulated(1) = EtaChunk(d, t, v)) =>
              LET remaining == StatedKiB[t] - StatedKiB[d]
                  speed == StatedKiB[v]
                  seconds == remaining \div speed
              IN  /\ StartsWith(Displayed(1), "Downloading... 50.0%")
                  /\ Includes(Displayed(1), " | ETA ") <=> StatedEtaShown(remaining, speed)
                  /\ StatedEtaShown(remaining, speed) =>
                        LET eta == " | ETA " \o NatToString(seconds \div 60) \o ":"
                                       \o PadStart2(seconds % 60)
                        IN  \/ Includes(Displayed(1), eta \o " | ")
                            \/ /\ Len(Displayed(1)) >= Len(eta)
                               /\ SubSeq(Displayed(1), Len(Displayed(1)) - Len(eta) + 1,
                                         Len(Displayed(1))) = eta

\* 3600 MiB remain at 1 MiB/s: the ETA is 3600 s and is not shown
C24_Witness ==
    /\ pc[1] = "running"
    /\ Accumulated(1) = EtaChunk("0.0MiB", "3600MiB", "1MiB")
    /\ Displayed(1) = "Downloading... 50.0% | 1.0 MB/s"

\* the two audio modes and the target codec of each
AudioCodec(dt) == IF dt = "mp3_audio" THEN "mp3" ELSE IF dt = "m4a_audio" THEN "m4a" ELSE ""

(* C25: every spawned argument list carries the URL, the output template,
   --no-playlist, 3 extractor retries, 3 fragment retries, a retry delay of 1
   second and the alternate player clients; -f and --merge-output-format mp4
   are present exactly in the two video modes; -x with --audio-format and the
   codec exactly in the two audio modes, --audio-quality exactly for MP3; no
   --postprocessor-args in an audio mode, whatever the compression level. *)
C25_CommonAndModeArgs ==
    pc[1] = "running" =>
        LET argv == args[1]
            dt == req[1].downloadType
            video == dt \in {"mp4_video_audio", "mp4_video_only"}
            audio == dt \in {"mp3_audio", "m4a_audio"}
        IN  /\ CountArg(argv, req[1].url) = 1
            /\ CountArg(argv, "-o") = 1
            /\ ArgAfter(argv, "-o") = req[1].outputPath \o "/%(title)s.%(ext)s"
            /\ CountArg(argv, "--no-playlist") = 1
            /\ CountArg(argv, "--extractor-retries") = 1
            /\ ArgAfter(argv, "--extractor-retries") = "3"
            /\ CountArg(argv, "--fragment-retries") = 1
            /\ ArgAfter(argv, "--fragment-retries") = "3"
            /\ CountArg(argv, "--retry-sleep") = 1
            /\ ArgAfter(argv, "--retry-sleep") = "1"
            /\ CountArg(argv, "--extractor-args") = 1
            /\ ArgAfter(argv, "--extractor-args") = "youtube:player_client=android,web"
            /\ video \/ audio
            /\ CountArg(argv, "-f") = (IF video THEN 1 ELSE 0)
            /\ video => ArgAfter(argv, "-f") # ""
            /\ CountArg(argv, "--merge-output-format") = (IF video THEN 1 ELSE 0)
            /\ video => ArgAfter(argv, "--merge-output-format") = "mp4"
            /\ CountArg(argv, "-x") = (IF audio THEN 1 ELSE 0)
            /\ CountArg(argv, "--audio-format") = (IF audio THEN 1 ELSE 0)
            /\ audio => ArgAfter(argv, "--audio-format") = AudioCodec(dt)
            /\ CountArg(argv, "--audio-quality") = (IF dt = "mp3_audio" THEN 1 ELSE 0)
            /\ dt = "mp3_audio" => ArgAfter(argv, "--audio-quality") = req[1].mp3Quality
            /\ audio => CountArg(argv, "--postprocessor-args") = 0

\* an MP3 download was spawned while the compression level was High
C25_Witness ==
    /\ pc[1] = "running"
    /\ req[1].downloadType = "mp3_audio"
    /\ req[1].compressionLevel = "high"
    /\ ArgAfter(args[1], "--audio-quality") = "320K"
    /\ CountArg(args[1], "--postprocessor-args") = 0

(* C26: no subprocess is spawned unless the URL of the request passed
   validateUrl and both executable paths were found; every step taken while
   the URL is empty or invalid or an executable is missing, a submission
   included, leaves isLoading, activeProcessRef, fullOutput and the number of
   spawned processes as they were. *)
SubmissionRejected == ~validateUrl(url) \/ ytDlpPath = "" \/ ffmpegPath = ""

C26_NoSpawnWithoutGuards ==
    [][/\ \A r \in Requests :
             spawns'[r] > spawns[r] =>
                 /\ validateUrl(req'[r].url)
                 /\ req'[r].ytDlpPath # "" /\ req'[r].ffmpegPath # ""
       /\ SubmissionRejected =>
             /\ UNCHANGED <<isLoading, activeProcessRef, fullOutput, spawns>>
             /\ \A r \in Requests : pc'[r] = "idle"]_vars

\* both kinds of rejected submission have happened: with yt-dlp missing only
\* handleSubmit validates the URL, so the error shown is the one it set, and
\* the "Missing Dependencies" toast is up
C26_Witness ==
    /\ spawns[1] = 0 /\ ~isLoading /\ activeProcessRef = 0
    /\ ytDlpPath = ""
    /\ urlError = MsgUrlInvalid
    /\ toast[1].title = "Missing Dependencies"


(* C27: once the toast of a request shows Success ("Download Complete!"),
   no later step of that request changes its style or title, the rejection of
   closeMainWindow included. *)
C27_SuccessIsFinal ==
    [][\A r \in Requests :
          toast[r].title = "Download Complete!" =>
              /\ toast'[r].title = "Download Complete!"
              /\ toast'[r].style = "Success"]_vars


(* C28: once every metadata call has completed, an estimate that is displayed
   for a valid URL is the one computed from the settings the form has now. *)
C28_EstimateFromLatestSettings ==
    (infoCalls = {} /\ validateUrl(url) /\ estimatedSize # "") =>
        /\ estimateOf.call.videoUrl = url
        /\ estimatedSize = FormatEstimate(EstimateNum(CurrentSettings, estimateOf.duration))


\* the --postprocessor-args pair a download with the settings c passes to
\* yt-dlp: none in the audio modes
PassedEncoderArgs(c) ==
    IF IsVideoType(c.downloadType)
    THEN CompressionArgs(c.downloadType, c.compressionLevel, c.compressionCrf)
    ELSE << >>

(* C29: the displayed estimate is also the estimate of every other choice of
   compression level and CRF that, with the same download type, qualities and
   duration, passes the same encoder argument to yt-dlp; so Custom with CRF
   20, 23 or 28 is estimated as Light, Medium or High. *)
C29_EstimateFollowsEncoderArgument ==
    videoInfo.present =>
        \A cl \in CompressionLevels, crf \in CrfValues :
            LET c == estimateOf.call.settings
                other == [c EXCEPT !.compressionLevel = cl, !.compressionCrf = crf]
            IN  PassedEncoderArgs(other) = PassedEncoderArgs(c)
                    => FormatEstimate(EstimateNum(other, estimateOf.duration)) = estimatedSize


(* C30: when a preset whose compression level is not "none" was applied and
   the form submitted, the encoder argument passed to yt-dlp carries the CRF
   of the preset's compressionCrf field. *)
C30_PresetCrfEmitted ==
    \A k \in NonCustomPresets :
        (/\ pc[1] = "running"
         /\ selectedPreset = k
         /\ presets[k].compressionLevel # "none")
            => ArgAfter(args[1], "--postprocessor-args")
                   = EncoderArgument(presets[k].downloadType, presets[k].compressionCrf)

====
